---- MODULE Spec2Model ----
(***************************************************************************)
(* A model of the notus key-value store (notus/src): the segment files on  *)
(* disk, the directory lock, and for every open instance its keydir, write *)
(* buffer, active segment, background flusher and its running operations.  *)
(*                                                                         *)
(* Abstractions.  A byte offset in a data file is modelled by the index of *)
(* the record that starts there (0 for the first record).  A file id (the  *)
(* decimal nanosecond timestamp of its creation) is modelled by the tick   *)
(* of a clock that advances at every creation; ids of equal width compare  *)
(* as strings the way they compare as numbers.                             *)
(***************************************************************************)
EXTENDS Integers, Sequences, FiniteSets, TLC

\* ------------------------------------------------------------------ bounds
MaxFiles == 3
MaxOps == 3
MaxMerges == 1
MaxPresent == 4

\* --------------------------------------------------------------- universes
Inst == {"a", "b"}
Keys == {<<1>>, <<2>>}
Values == {1, 2}
FileIds == 1..(MaxFiles + MaxMerges)

\* The keys of the range and prefix calls: the byte strings over two byte
\* values up to length two, the empty one included.
QueryKeys == {<<>>, <<1>>, <<1, 1>>, <<1, 2>>, <<2>>, <<2, 1>>, <<2, 2>>}

\* Result of get: Some(v) is v itself, Ok(None) is None, Err(_) is IOError.
None == 0
IOError == -1
CorruptValue == -2

DEFAULT_INDEX == "default"

VARIABLES
    disk,         \* file id -> [exists, data, hint]: the directory's segment pairs
    clock,        \* Utc::now(): the id the next created pair gets
    lock_holder,  \* who holds the flock on the lock file ("none" if nobody)
    phase,        \* per instance: how far DataStore::open / drop has come
    active_file,  \* DataStore.active_file (its file id)
    files_dir,    \* DataStore.files_dir (the ids discovered at open)
    keys_dir,     \* DataStore.keys_dir (column DEFAULT_INDEX)
    buffer,       \* DataStore.buffer, keyed by the serialized RawKey
    buf_lock,     \* who holds the write half of DataStore.buffer's RwLock
    dropped,      \* Notus.dropped
    holders,      \* the owners of the Arc<DataStore>
    flusher,      \* the background thread's position
    clear_st,     \* a running DataStore::clear
    merge_st,     \* a running DataStore::merge
    last_op,      \* history: the last put/delete/clear of every key, who
                  \* issued it, and whether a delete found the key present
    nops,         \* history: the number of puts, deletes and clears issued
    open_ctx,     \* history: what the other instances were doing when this
                  \* instance's open was called
    merge_hist,   \* history: the last merge, and keys() and every get as
                  \* they were when it was called
    query,        \* the last range or prefix call and the keys it returned
    iter,         \* per instance: its DBIterator, and history: what the
                  \* iterator has yielded
    thr,          \* per thread: the DataStore call it is in and how far its
                  \* lock acquisitions and releases have come
    memtable      \* a MemTable, and history: the log of its calls

vars == <<disk, clock, lock_holder, phase, active_file, files_dir, keys_dir,
          buffer, buf_lock, dropped, holders, flusher, clear_st, merge_st,
          last_op, nops, open_ctx, merge_hist, query, iter, thr, memtable>>

\* ------------------------------------------------------------- byte order
Min(a, b) == IF a <= b THEN a ELSE b

\* Ord for Vec<u8>: lexicographic on unsigned bytes.
LexLeq(a, b) ==
    LET n == Min(Len(a), Len(b)) IN
    \/ (\A j \in 1..n : a[j] = b[j]) /\ Len(a) <= Len(b)
    \/ \E j \in 1..n : (\A t \in 1..(j - 1) : a[t] = b[t]) /\ a[j] < b[j]

RECURSIVE SortKeys(_)
SortKeys(S) ==
    IF S = {} THEN <<>>
    ELSE LET m == CHOOSE x \in S : \A y \in S : LexLeq(x, y)
         IN <<m>> \o SortKeys(S \ {m})

\* ------------------------------------------------------------------ codec
RawKey(column, key) == <<column, key>>

\* bincode::serialize(&RawKey): the column and the key, each length-prefixed.
Serialize(raw_key) == [column |-> raw_key[1], key |-> raw_key[2]]

\* bincode::deserialize::<RawKey>
Deserialize(bytes) == <<bytes.column, bytes.key>>

SerKeys == {Serialize(RawKey(DEFAULT_INDEX, k)) : k \in Keys}

\* The CRC32 of a record's fields: equal fields give equal sums, and fields
\* that differ in one byte give different sums.
Crc(key, value) == <<key, value>>

DataEntry(key, value) == [key |-> key, value |-> value, crc |-> Crc(key, value)]

\* DataEntry::check_crc
CheckCrc(entry) == entry.crc = Crc(entry.key, entry.value)

HintEntryFrom(entry, position) ==
    [key |-> entry.key, data_entry_position |-> position, deleted |-> FALSE]

HintEntryTombstone(key) ==
    [key |-> key, data_entry_position |-> 0, deleted |-> TRUE]

\* The first bytes of a hint record whose write was cut short, and
\* HintEntry::decode: Ok for a complete record, Err for a torn one.
TornHintEntry(h) == [h EXCEPT !.data_entry_position = -1]
HintDecodes(h) == h.data_entry_position >= 0

\* ----------------------------------------------------------------- keydir
Absent == [st |-> "Absent", file_id |-> 0, data_entry_position |-> 0]
InBuffer == [st |-> "InBuffer", file_id |-> 0, data_entry_position |-> 0]
Persisted(file_id, pos) ==
    [st |-> "Persisted", file_id |-> file_id, data_entry_position |-> pos]

EmptyKeysDir == [k \in Keys |-> Absent]

KeysDirInsert(kd, key, entry) == [kd EXCEPT ![key] = entry]

KeysDirPartialInsert(kd, key) == [kd EXCEPT ![key] = InBuffer]

KeysDirRemoveWholeIndex(kd, key) == [k \in DOMAIN kd |-> Absent]
KeysDirRemove(kd, key) == [kd EXCEPT ![key] = Absent]

KeysDirClear(kd) == [k \in DOMAIN kd |-> Absent]

\* KeysDir::get: Some(entry) only for a Persisted entry.
KeysDirGet(kd, key) == IF kd[key].st = "Persisted" THEN kd[key] ELSE Absent

KeysDirContains(kd, key) == kd[key].st # "Absent"

KeysDirKeys(kd) == SortKeys({k \in DOMAIN kd : kd[k].st # "Absent"})

\* KeysDir::range(index, a..=b): the BTreeMap's entries from the first key
\* not below a to the last key not above b.
KeysDirRangeExclusive(kd, a, b) ==
    SelectSeq(KeysDirKeys(kd), LAMBDA k : LexLeq(a, k) /\ LexLeq(k, b) /\ k # b)
KeysDirRange(kd, a, b) ==
    SelectSeq(KeysDirKeys(kd), LAMBDA k : LexLeq(a, k) /\ LexLeq(k, b))

\* <[u8]>::starts_with
StartsWith(k, prefix) ==
    /\ Len(prefix) <= Len(k)
    /\ \A j \in 1..Len(prefix) : k[j] = prefix[j]

\* Iterator::take_while(|k| k.starts_with(prefix))
RECURSIVE TakeWhileStartsWith(_, _)
TakeWhileStartsWith(ks, prefix) ==
    IF ks = <<>> \/ ~StartsWith(Head(ks), prefix) THEN <<>>
    ELSE <<Head(ks)>> \o TakeWhileStartsWith(Tail(ks), prefix)

\* KeysDir::prefix: range(prefix..) cut at the first key that does not start
\* with the prefix.
KeysDirPrefixNoLowerBound(kd, prefix) ==
    TakeWhileStartsWith(KeysDirKeys(kd), prefix)
KeysDirPrefix(kd, prefix) ==
    TakeWhileStartsWith(
        SelectSeq(KeysDirKeys(kd), LAMBDA k : LexLeq(prefix, k)), prefix)

\* KeysDir::raw_keys: every key of the keydir, serialized.
KeysDirRawKeys(kd) ==
    LET ks == KeysDirKeys(kd)
    IN [n \in 1..Len(ks) |-> Serialize(RawKey(DEFAULT_INDEX, ks[n]))]

\* ------------------------------------------------------------ segment pair
\* exists: a file of the pair is in the directory; hint_missing: its .data
\* file is, its .hint file is not.
NoPair == [exists |-> FALSE, data |-> <<>>, hint |-> <<>>, hint_missing |-> FALSE]
EmptyPair == [exists |-> TRUE, data |-> <<>>, hint |-> <<>>, hint_missing |-> FALSE]

\* File::open(&self.hint_file_path) in fetch_hint_entries and get_hints; the
\* path of a pair without a .hint file is empty.
HintOpens(d, f) == d[f].exists /\ ~d[f].hint_missing

\* ActiveFilePair::write: the record at the end of the data file, then its
\* hint at the end of the hint file.  A pair whose files were unlinked keeps
\* its open handles: the bytes go to files no path leads to.
WritePositionAfterAppend(d, f) == Len(d[f].data) + 1
WritePosition(d, f) == Len(d[f].data)

WriteToOldestPair(d, f, entry) ==
    LET g == CHOOSE x \in DOMAIN d : d[x].exists /\ \A y \in DOMAIN d : d[y].exists => x <= y
    IN IF d[f].exists
       THEN [d EXCEPT ![g].data = Append(@, entry),
                      ![g].hint = Append(@, HintEntryFrom(entry, Len(d[g].data)))]
       ELSE d
Write(d, f, entry) ==
    IF d[f].exists
    THEN [d EXCEPT ![f].data = Append(@, entry),
                   ![f].hint = Append(@, HintEntryFrom(entry, WritePosition(d, f)))]
    ELSE d

\* What a failed flush of the data file's BufWriter leaves of a record: only
\* its first bytes, which do not pass the CRC check.
Torn(entry) == [entry EXCEPT !.value = None]

\* ActiveFilePair::write when dfw.flush() fails: its result is discarded, so
\* the hint is appended and Ok returned all the same.  The data file got
\* nothing of the record, or (torn) only its first bytes.
WriteUnflushed(d, f, entry, torn) ==
    IF d[f].exists
    THEN [d EXCEPT ![f].data = IF torn THEN Append(@, Torn(entry)) ELSE @,
                   ![f].hint = Append(@, HintEntryFrom(entry, WritePosition(d, f)))]
    ELSE d

\* ActiveFilePair::remove: a tombstone hint, no data record.
RemoveWritesNothing(d, f, key) == d
Remove(d, f, key) ==
    IF d[f].exists
    THEN [d EXCEPT ![f].hint = Append(@, HintEntryTombstone(key))]
    ELSE d

\* FilePair::read: Ok iff the file can be opened, a record starts there and
\* its CRC checks.
Read(d, f, pos) == d[f].data[pos + 1]

ReadOkSkipsCrc(d, f, pos) == d[f].exists /\ pos < Len(d[f].data)
ReadOk(d, f, pos) ==
    /\ d[f].exists
    /\ pos < Len(d[f].data)
    /\ CheckCrc(Read(d, f, pos))

\* The error of a read that is not Ok.
ReadErr(d, f, pos) ==
    IF d[f].exists /\ pos < Len(d[f].data) THEN CorruptValue ELSE IOError

\* FilePair::fetch_hint_entries over the hints still to apply.
RECURSIVE FetchHintEntriesKeepsDeleted(_, _, _)
FetchHintEntriesKeepsDeleted(kd, hints, file_id) ==
    IF hints = <<>> THEN kd
    ELSE LET h == Head(hints)
             key == Deserialize(h.key)[2]
         IN FetchHintEntriesKeepsDeleted(
                IF h.deleted THEN kd
                ELSE KeysDirInsert(kd, key, Persisted(file_id, h.data_entry_position)),
                Tail(hints), file_id)

RECURSIVE FetchHintEntriesPastTorn(_, _, _)
FetchHintEntriesPastTorn(kd, hints, file_id) ==
    IF hints = <<>> THEN kd
    ELSE LET h == Head(hints)
             key == Deserialize(h.key)[2]
         IN FetchHintEntriesPastTorn(
                IF h.deleted THEN KeysDirRemove(kd, key)
                ELSE KeysDirInsert(kd, key, Persisted(file_id, h.data_entry_position)),
                Tail(hints), file_id)

\* `while let Ok(hint_entry) = HintEntry::decode(..)`: the loop ends at the
\* end of the file or at the first record that does not decode.
RECURSIVE FetchHintEntries(_, _, _)
FetchHintEntries(kd, hints, file_id) ==
    IF hints = <<>> \/ ~HintDecodes(Head(hints)) THEN kd
    ELSE LET h == Head(hints)
             key == Deserialize(h.key)[2]
         IN FetchHintEntries(
                IF h.deleted THEN KeysDirRemove(kd, key)
                ELSE KeysDirInsert(kd, key, Persisted(file_id, h.data_entry_position)),
                Tail(hints), file_id)

\* FilePair::get_hints
RECURSIVE DecodedHints(_)
DecodedHints(hints) ==
    IF hints = <<>> \/ ~HintDecodes(Head(hints)) THEN <<>>
    ELSE <<Head(hints)>> \o DecodedHints(Tail(hints))

GetHints(d, f) == DecodedHints(d[f].hint)

\* fetch_file_pairs: the ids that have a file in the directory.
FetchFilePairs(d) == {f \in DOMAIN d : d[f].exists}

\* KeysDir::new: the pairs in the BTreeMap's (ascending id) order.
RECURSIVE KeysDirNewFrom(_, _, _)
KeysDirNewFrom(kd, d, files) ==
    IF files = {} THEN kd
    ELSE LET f == CHOOSE x \in files : \A y \in files : x <= y
         IN KeysDirNewFrom(FetchHintEntries(kd, d[f].hint, f), d, files \ {f})

KeysDirNew(d, files) == KeysDirNewFrom(EmptyKeysDir, d, files)

\* ------------------------------------------------------- DataStore queries
BufferKey(k) == Serialize(RawKey(DEFAULT_INDEX, k))

EmptyBuffer == [sk \in SerKeys |-> None]

\* DataStore::get on instance state (b, kd, fd) and disk d.
GetFrom(b, kd, fd, d, k) ==
    IF b[BufferKey(k)] # None THEN b[BufferKey(k)]
    ELSE LET e == KeysDirGet(kd, k) IN
         IF e.st # "Persisted" THEN None
         ELSE IF e.file_id \notin fd THEN None
         ELSE IF ~ReadOk(d, e.file_id, e.data_entry_position)
              THEN ReadErr(d, e.file_id, e.data_entry_position)
         ELSE Read(d, e.file_id, e.data_entry_position).value

Get(i, k) == GetFrom(buffer[i], keys_dir[i], files_dir[i], disk, k)

\* DataStore::contains
Contains(i, k) ==
    \/ buffer[i][BufferKey(k)] # None
    \/ KeysDirContains(keys_dir[i], k)

\* DataStore::keys
KeysOf(i) == KeysDirKeys(keys_dir[i])

\* keys() and get(K) for every K.
ObsFrom(b, kd, fd, d) ==
    [keys |-> KeysDirKeys(kd), get |-> [k \in Keys |-> GetFrom(b, kd, fd, d, k)]]

Obs(i) == ObsFrom(buffer[i], keys_dir[i], files_dir[i], disk)

EmptyObs == [keys |-> <<>>, get |-> [k \in Keys |-> None]]

\* ---------------------------------------------------------------- history
NoOp == [op |-> "none", value |-> None, by |-> "none", present |-> FALSE]

\* The last-write-wins fold of the puts and deletes issued so far.
Fold(k) == IF last_op[k].op = "put" THEN last_op[k].value ELSE None
FoldKeys == SortKeys({k \in Keys : Fold(k) # None})

\* ------------------------------------------------------------------- Init
IdleClear == [pc |-> "idle", keys |-> <<>>]
IdleMerge == [pc |-> "idle"]
NoContext == [kind |-> "none", fold |-> [k \in Keys |-> None]]
NoMerge == [count |-> 0, by |-> "none", at |-> 0, ok |-> FALSE, before |-> EmptyObs,
            after_ok |-> FALSE]

NoQuery == [op |-> "none", a |-> <<>>, b |-> <<>>, out |-> <<>>]

\* The threads that share a DataStore; none is in a call.
Threads == {"t1", "t2", "t3"}
IdleThread == [op |-> "idle", pc |-> 0]

\* MemTable::new
EmptyMemTable == [entries |-> <<>>, size |-> 0, underflow |-> FALSE, last |-> <<>>]
NoIter == [on |-> FALSE, inner |-> <<>>, cursor |-> 0, out |-> <<>>,
           ended |-> FALSE, fwd |-> FALSE, back |-> FALSE, at |-> 0]

\* Everything but the keydirs.
InitOther ==
    /\ disk = [f \in FileIds |-> NoPair]
    /\ clock = 1
    /\ lock_holder = "none"
    /\ phase = [i \in Inst |-> "none"]
    /\ active_file = [i \in Inst |-> 0]
    /\ files_dir = [i \in Inst |-> {}]
    /\ buffer = [i \in Inst |-> EmptyBuffer]
    /\ buf_lock = [i \in Inst |-> "free"]
    /\ dropped = [i \in Inst |-> FALSE]
    /\ holders = [i \in Inst |-> {}]
    /\ flusher = [i \in Inst |-> "none"]
    /\ clear_st = [i \in Inst |-> IdleClear]
    /\ merge_st = [i \in Inst |-> IdleMerge]
    /\ last_op = [k \in Keys |-> NoOp]
    /\ nops = 0
    /\ open_ctx = [i \in Inst |-> NoContext]
    /\ merge_hist = NoMerge
    /\ query = NoQuery
    /\ iter = [i \in Inst |-> NoIter]
    /\ thr = [t \in Threads |-> IdleThread]
    /\ memtable = EmptyMemTable

Init ==
    /\ keys_dir = [i \in Inst |-> EmptyKeysDir]
    /\ InitOther

\* ------------------------------------------------------------------- open
\* The drop of instance o's Notus handle has returned (or there never was
\* one): the handle's Arc is released, and if that ran DataStore::drop in
\* the caller's thread, it has finished.  A DataStore::drop left to the
\* worker may still be to come or under way.
HandleDropped(o) ==
    \/ phase[o] = "none"
    \/ phase[o] = "open" /\ "notus" \notin holders[o]
    \/ phase[o] = "drop" /\ flusher[o] = "drop"

\* What the call of open finds: "contended" if another instance is open and
\* its handle alive, "after_drop" if every handle there was has been
\* dropped; and the values put so far.
OpenContext(i) ==
    [kind |-> IF \E o \in Inst \ {i} :
                     phase[o] = "open" /\ "notus" \in holders[o] /\ ~dropped[o]
              THEN "contended"
              ELSE IF \A o \in Inst \ {i} : HandleDropped(o)
              THEN "after_drop"
              ELSE "other",
     fold |-> [k \in Keys |-> Fold(k)]]

\* DataStore::open, first half: get_lock_file opens the lock file without
\* locking it, create_new_file_pair creates the pair named by the clock.
OpenCreate(i) ==
    /\ phase[i] = "none"
    /\ clock \in FileIds
    /\ clock - merge_hist.count <= MaxFiles
    /\ disk' = [disk EXCEPT ![clock] = EmptyPair]
    /\ active_file' = [active_file EXCEPT ![i] = clock]
    /\ clock' = clock + 1
    /\ phase' = [phase EXCEPT ![i] = "created"]
    /\ open_ctx' = [open_ctx EXCEPT ![i] = OpenContext(i)]
    /\ UNCHANGED <<query, iter, thr, memtable>>
    /\ UNCHANGED <<lock_holder, files_dir, keys_dir, buffer, buf_lock, dropped,
                   holders, flusher, clear_st, merge_st, last_op, nops,
                   merge_hist>>

\* fetch_file_pairs
OpenDiscover(i) ==
    /\ phase[i] = "created"
    /\ files_dir' = [files_dir EXCEPT ![i] = FetchFilePairs(disk)]
    /\ phase' = [phase EXCEPT ![i] = "discovered"]
    /\ UNCHANGED <<query, iter, thr, memtable>>
    /\ UNCHANGED <<disk, clock, lock_holder, active_file, keys_dir, buffer,
                   buf_lock, dropped, holders, flusher, clear_st, merge_st,
                   last_op, nops, open_ctx, merge_hist>>

\* KeysDir::new; a pair whose hint file cannot be opened fails the open.
OpenReplay(i) ==
    /\ phase[i] = "discovered"
    /\ IF \A f \in files_dir[i] : HintOpens(disk, f)
       THEN /\ keys_dir' = [keys_dir EXCEPT ![i] = KeysDirNew(disk, files_dir[i])]
            /\ phase' = [phase EXCEPT ![i] = "replayed"]
            /\ UNCHANGED <<active_file, files_dir>>
       ELSE /\ phase' = [phase EXCEPT ![i] = "none"]
            /\ active_file' = [active_file EXCEPT ![i] = 0]
            /\ files_dir' = [files_dir EXCEPT ![i] = {}]
            /\ UNCHANGED keys_dir
    /\ UNCHANGED <<query, iter, thr, memtable>>
    /\ UNCHANGED <<disk, clock, lock_holder, buffer, buf_lock, dropped, holders,
                   flusher, clear_st, merge_st, last_op, nops,
                   open_ctx, merge_hist>>

\* DataStore::lock: lock_exclusive waits until the flock is free.  Then
\* Notus::open wraps the store in an Arc and starts the background worker.
OpenLock(i) ==
    /\ phase[i] = "replayed"
    /\ lock_holder = "none"
    /\ lock_holder' = i
    /\ phase' = [phase EXCEPT ![i] = "open"]
    /\ dropped' = [dropped EXCEPT ![i] = FALSE]
    /\ holders' = [holders EXCEPT ![i] = {"notus", "flusher"}]
    /\ flusher' = [flusher EXCEPT ![i] = "sleep"]
    /\ UNCHANGED <<query, iter, thr, memtable>>
    /\ UNCHANGED <<disk, clock, active_file, files_dir, keys_dir, buffer,
                   buf_lock, clear_st, merge_st, last_op, nops,
                   open_ctx, merge_hist>>

\* The Notus handle of instance i is alive.
Handle(i) ==
    /\ phase[i] = "open"
    /\ "notus" \in holders[i]
    /\ ~dropped[i]

\* The caller holds a Notus handle and no call of its own is running.
Usable(i) ==
    /\ Handle(i)
    /\ buf_lock[i] # "user"
    /\ clear_st[i].pc = "idle"
    /\ merge_st[i].pc = "idle"

\* ------------------------------------------------------------ put, delete
\* The two effects of DataStore::put on buffer b and keydir kd.
PutResultAdds(b, kd, k, v) ==
    [buffer |-> [b EXCEPT ![BufferKey(k)] = @ + v],
     keys_dir |-> KeysDirPartialInsert(kd, k)]
PutResult(b, kd, k, v) ==
    [buffer |-> [b EXCEPT ![BufferKey(k)] = v],
     keys_dir |-> KeysDirPartialInsert(kd, k)]

\* DataStore::put, under the buffer's write lock, by any thread that shares
\* the handle.
PutBy(i, k, v) ==
    LET r == PutResult(buffer[i], keys_dir[i], k, v) IN
    /\ Handle(i)
    /\ buf_lock[i] = "free"
    /\ nops < MaxOps
    /\ buffer' = [buffer EXCEPT ![i] = r.buffer]
    /\ keys_dir' = [keys_dir EXCEPT ![i] = r.keys_dir]
    /\ last_op' = [last_op EXCEPT ![k] =
           [op |-> "put", value |-> v, by |-> i, present |-> TRUE]]
    /\ nops' = nops + 1
    /\ UNCHANGED <<query, iter, thr, memtable>>
    /\ UNCHANGED <<disk, clock, lock_holder, phase, active_file, files_dir,
                   buf_lock, dropped, holders, flusher, clear_st, merge_st,
                   open_ctx, merge_hist>>

\* A put of the client, no other call of its own running.
Put(i, k, v) == Usable(i) /\ PutBy(i, k, v)

\* The three effects of DataStore::delete on buffer b, active pair f of disk
\* d, and keydir kd.
DeleteResult(b, kd, d, f, k) ==
    [buffer |-> [b EXCEPT ![BufferKey(k)] = None],
     disk |-> Remove(d, f, BufferKey(k)),
     keys_dir |-> KeysDirRemove(kd, k)]

\* DataStore::delete, under the buffer's write lock, by any thread that
\* shares the handle.
DeleteBy(i, k) ==
    LET r == DeleteResult(buffer[i], keys_dir[i], disk, active_file[i], k) IN
    /\ Handle(i)
    /\ buf_lock[i] = "free"
    /\ nops < MaxOps
    /\ buffer' = [buffer EXCEPT ![i] = r.buffer]
    /\ disk' = r.disk
    /\ keys_dir' = [keys_dir EXCEPT ![i] = r.keys_dir]
    /\ last_op' = [last_op EXCEPT ![k] =
           [op |-> "delete", value |-> None, by |-> i,
            present |-> (buffer[i][BufferKey(k)] # None \/ KeysDirContains(keys_dir[i], k))]]
    /\ nops' = nops + 1
    /\ UNCHANGED <<query, iter, thr, memtable>>
    /\ UNCHANGED <<clock, lock_holder, phase, active_file, files_dir, buf_lock,
                   dropped, holders, flusher, clear_st, merge_st,
                   open_ctx, merge_hist>>

\* A delete of the client, no other call of its own running.
Delete(i, k) == Usable(i) /\ DeleteBy(i, k)

\* DataStore::delete when ActiveFilePair::remove returns Err before it has
\* written anything: buffer.remove(&key) has run, `?` returns the error and
\* keys_dir.remove is not reached.
DeleteFail(i, k) ==
    /\ Usable(i)
    /\ buf_lock[i] = "free"
    /\ nops < MaxOps
    /\ buffer' = [buffer EXCEPT ![i][BufferKey(k)] = None]
    /\ nops' = nops + 1
    /\ UNCHANGED <<query, iter, thr, memtable>>
    /\ UNCHANGED <<disk, clock, lock_holder, phase, active_file, files_dir,
                   keys_dir, buf_lock, dropped, holders, flusher, clear_st,
                   merge_st, last_op, open_ctx, merge_hist>>

\* ------------------------------------------------------------------ flush
\* DataStore::flush called by the client: take the buffer's write lock.
FlushBegin(i) ==
    /\ Usable(i)
    /\ buf_lock[i] = "free"
    /\ buf_lock' = [buf_lock EXCEPT ![i] = "user"]
    /\ UNCHANGED <<query, iter, thr, memtable>>
    /\ UNCHANGED <<disk, clock, lock_holder, phase, active_file, files_dir,
                   keys_dir, buffer, dropped, holders, flusher, clear_st,
                   merge_st, last_op, nops, open_ctx, merge_hist>>

\* One turn of flush's loop over buffer.drain(), in the HashMap's order.
FlushDrain(i) ==
    /\ buf_lock[i] # "free"
    /\ \E sk \in SerKeys :
        /\ buffer[i][sk] # None
        /\ LET raw_key == Deserialize(sk)
               data_entry == DataEntry(sk, buffer[i][sk])
               key_dir_entry ==
                   Persisted(active_file[i], WritePosition(disk, active_file[i]))
           IN /\ disk' = Write(disk, active_file[i], data_entry)
              /\ keys_dir' = [keys_dir EXCEPT
                     ![i] = KeysDirInsert(@, raw_key[2], key_dir_entry)]
              /\ buffer' = [buffer EXCEPT ![i][sk] = None]
    /\ UNCHANGED <<query, iter, thr, memtable>>
    /\ UNCHANGED <<clock, lock_holder, phase, active_file, files_dir, buf_lock,
                   dropped, holders, flusher, clear_st, merge_st, last_op, nops,
                   open_ctx, merge_hist>>

\* A turn of flush's loop in which the flush of the data file's BufWriter
\* fails: ActiveFilePair::write returns Ok and the keydir entry is inserted.
FlushDrainUnflushed(i) ==
    /\ buf_lock[i] # "free"
    /\ \E sk \in SerKeys, torn \in BOOLEAN :
        /\ buffer[i][sk] # None
        /\ LET raw_key == Deserialize(sk)
               data_entry == DataEntry(sk, buffer[i][sk])
               key_dir_entry ==
                   Persisted(active_file[i], WritePosition(disk, active_file[i]))
           IN /\ disk' = WriteUnflushed(disk, active_file[i], data_entry, torn)
              /\ keys_dir' = [keys_dir EXCEPT
                     ![i] = KeysDirInsert(@, raw_key[2], key_dir_entry)]
              /\ buffer' = [buffer EXCEPT ![i][sk] = None]
    /\ UNCHANGED <<query, iter, thr, memtable>>
    /\ UNCHANGED <<clock, lock_holder, phase, active_file, files_dir, buf_lock,
                   dropped, holders, flusher, clear_st, merge_st, last_op, nops,
                   open_ctx, merge_hist>>

\* An append fails (ActiveFilePair::write returns Err before it has written
\* anything): flush returns the error at once.  The Drain it was iterating
\* is dropped, which removes every entry not yet yielded from the buffer.
\* The worker and DataStore::drop discard the error.
FlushFail(i) ==
    /\ buf_lock[i] # "free"
    /\ buffer[i] # EmptyBuffer
    /\ buffer' = [buffer EXCEPT ![i] = EmptyBuffer]
    /\ flusher' = [flusher EXCEPT ![i] = IF buf_lock[i] = "bg" THEN "sleep" ELSE @]
    /\ buf_lock' = [buf_lock EXCEPT ![i] = IF @ = "drop" THEN "drop" ELSE "free"]
    /\ UNCHANGED <<query, iter, thr, memtable>>
    /\ UNCHANGED <<disk, clock, lock_holder, phase, active_file, files_dir,
                   keys_dir, dropped, holders, clear_st, merge_st, last_op, nops,
                   open_ctx, merge_hist>>

\* flush returns Ok and releases the lock; the worker goes back to sleep.
FlushEnd(i) ==
    /\ buf_lock[i] \in {"user", "bg"}
    /\ buffer[i] = EmptyBuffer
    /\ flusher' = [flusher EXCEPT ![i] = IF buf_lock[i] = "bg" THEN "sleep" ELSE @]
    /\ buf_lock' = [buf_lock EXCEPT ![i] = "free"]
    /\ UNCHANGED <<query, iter, thr, memtable>>
    /\ UNCHANGED <<disk, clock, lock_holder, phase, active_file, files_dir,
                   keys_dir, buffer, dropped, holders, clear_st, merge_st,
                   last_op, nops, open_ctx, merge_hist>>

\* -------------------------------------------------------- worker and drop
\* Dropping one owner of the Arc<DataStore>; the last one runs
\* DataStore::drop, which starts with flush().
ReleaseArc(i, who) ==
    /\ holders' = [holders EXCEPT ![i] = @ \ {who}]
    /\ IF holders[i] \ {who} = {}
       THEN /\ phase' = [phase EXCEPT ![i] = "drop"]
            /\ buf_lock' = [buf_lock EXCEPT ![i] = "drop"]
       ELSE UNCHANGED <<phase, buf_lock>>

\* A worker that does not look at the flag.
FlusherWakeIgnoresFlag(i) ==
    /\ flusher[i] = "sleep"
    /\ buf_lock[i] = "free"
    /\ flusher' = [flusher EXCEPT ![i] = "flush"]
    /\ buf_lock' = [buf_lock EXCEPT ![i] = "bg"]
    /\ UNCHANGED <<holders, phase>>
    /\ UNCHANGED <<query, iter, thr, memtable>>
    /\ UNCHANGED <<disk, clock, lock_holder, active_file, files_dir, keys_dir,
                   buffer, dropped, clear_st, merge_st, last_op, nops,
                   open_ctx, merge_hist>>

\* A worker that only waits for the flag and never flushes.
FlusherWakeOnlyExits(i) ==
    /\ flusher[i] = "sleep"
    /\ dropped[i]
    /\ flusher' = [flusher EXCEPT
           ![i] = IF holders[i] = {"flusher"} THEN "drop" ELSE "none"]
    /\ ReleaseArc(i, "flusher")
    /\ UNCHANGED <<query, iter, thr, memtable>>
    /\ UNCHANGED <<disk, clock, lock_holder, active_file, files_dir, keys_dir,
                   buffer, dropped, clear_st, merge_st, last_op, nops,
                   open_ctx, merge_hist>>

\* One turn of the worker's loop after its sleep: it loads the flag and
\* either breaks and drops its Arc (running DataStore::drop itself if it is
\* the last owner), or calls store.flush(), which takes the buffer's write
\* lock.
FlusherWake(i) ==
    /\ flusher[i] = "sleep"
    /\ IF dropped[i]
       THEN /\ flusher' = [flusher EXCEPT
                   ![i] = IF holders[i] = {"flusher"} THEN "drop" ELSE "none"]
            /\ ReleaseArc(i, "flusher")
       ELSE /\ buf_lock[i] = "free"
            /\ flusher' = [flusher EXCEPT ![i] = "flush"]
            /\ buf_lock' = [buf_lock EXCEPT ![i] = "bg"]
            /\ UNCHANGED <<holders, phase>>
    /\ UNCHANGED <<query, iter, thr, memtable>>
    /\ UNCHANGED <<disk, clock, lock_holder, active_file, files_dir, keys_dir,
                   buffer, dropped, clear_st, merge_st, last_op, nops,
                   open_ctx, merge_hist>>

\* Drop for Notus: the flag is stored ...
NotusDropFlag(i) ==
    /\ Usable(i)
    /\ dropped' = [dropped EXCEPT ![i] = TRUE]
    /\ UNCHANGED <<query, iter, thr, memtable>>
    /\ UNCHANGED <<disk, clock, lock_holder, phase, active_file, files_dir,
                   keys_dir, buffer, buf_lock, holders, flusher, clear_st,
                   merge_st, last_op, nops, open_ctx, merge_hist>>

\* ... and then the handle's Arc field is dropped.
NotusDropArc(i) ==
    /\ dropped[i]
    /\ "notus" \in holders[i]
    /\ ReleaseArc(i, "notus")
    /\ UNCHANGED <<query, iter, thr, memtable>>
    /\ UNCHANGED <<disk, clock, lock_holder, active_file, files_dir, keys_dir,
                   buffer, dropped, flusher, clear_st, merge_st, last_op, nops,
                   open_ctx, merge_hist>>

\* A Drop for DataStore that unlocks without having flushed.
DropEndUnflushed(i) ==
    /\ phase[i] = "drop"
    /\ lock_holder' = IF lock_holder = i THEN "none" ELSE lock_holder
    /\ phase' = [phase EXCEPT ![i] = "none"]
    /\ buf_lock' = [buf_lock EXCEPT ![i] = "free"]
    /\ active_file' = [active_file EXCEPT ![i] = 0]
    /\ files_dir' = [files_dir EXCEPT ![i] = {}]
    /\ keys_dir' = [keys_dir EXCEPT ![i] = EmptyKeysDir]
    /\ dropped' = [dropped EXCEPT ![i] = FALSE]
    /\ last_op' = [k \in Keys |->
                     IF last_op[k].by = i THEN [last_op[k] EXCEPT !.by = "none"]
                     ELSE last_op[k]]
    /\ open_ctx' = [open_ctx EXCEPT ![i] = NoContext]
    /\ merge_hist' = IF merge_hist.by = i THEN [merge_hist EXCEPT !.by = "none"]
                     ELSE merge_hist
    /\ merge_st' = [merge_st EXCEPT ![i] = IdleMerge]
    /\ flusher' = [flusher EXCEPT ![i] = "none"]
    /\ UNCHANGED <<query, iter, thr, memtable>>
    /\ UNCHANGED <<disk, clock, buffer, holders, clear_st, nops>>

\* Drop for DataStore after its flush(): unlock the lock file; the instance
\* is gone.  Its puts and deletes are now those of an earlier session.
DropEnd(i) ==
    /\ phase[i] = "drop"
    /\ buffer[i] = EmptyBuffer
    /\ lock_holder' = IF lock_holder = i THEN "none" ELSE lock_holder
    /\ phase' = [phase EXCEPT ![i] = "none"]
    /\ buf_lock' = [buf_lock EXCEPT ![i] = "free"]
    /\ active_file' = [active_file EXCEPT ![i] = 0]
    /\ files_dir' = [files_dir EXCEPT ![i] = {}]
    /\ keys_dir' = [keys_dir EXCEPT ![i] = EmptyKeysDir]
    /\ dropped' = [dropped EXCEPT ![i] = FALSE]
    /\ last_op' = [k \in Keys |->
                     IF last_op[k].by = i THEN [last_op[k] EXCEPT !.by = "none"]
                     ELSE last_op[k]]
    /\ open_ctx' = [open_ctx EXCEPT ![i] = NoContext]
    /\ merge_hist' = IF merge_hist.by = i THEN [merge_hist EXCEPT !.by = "none"]
                     ELSE merge_hist
    /\ merge_st' = [merge_st EXCEPT ![i] = IdleMerge]
    /\ flusher' = [flusher EXCEPT ![i] = "none"]
    /\ UNCHANGED <<query, iter, thr, memtable>>
    /\ UNCHANGED <<disk, clock, buffer, holders, clear_st, nops>>

\* ------------------------------------------------- keydir, range and prefix
\* The keydir calls of put, flush and delete on instance i's keydir, for keys
\* of any length, and the range and prefix calls on it.
QueryFrame ==
    UNCHANGED <<disk, clock, lock_holder, phase, active_file, files_dir, buffer,
                buf_lock, dropped, holders, flusher, clear_st, merge_st, last_op,
                nops, open_ctx, merge_hist, iter, thr, memtable>>

QPartialInsert(i, k) ==
    /\ \/ keys_dir[i][k].st # "Absent"
       \/ Cardinality({x \in QueryKeys : keys_dir[i][x].st # "Absent"}) < MaxPresent
    /\ keys_dir' = [keys_dir EXCEPT ![i] = KeysDirPartialInsert(@, k)]
    /\ query' = NoQuery
    /\ QueryFrame

QInsert(i, k) ==
    /\ keys_dir[i][k].st = "InBuffer"
    /\ keys_dir' = [keys_dir EXCEPT ![i] = KeysDirInsert(@, k, Persisted(1, 0))]
    /\ query' = NoQuery
    /\ QueryFrame

QRemove(i, k) ==
    /\ keys_dir' = [keys_dir EXCEPT ![i] = KeysDirRemove(@, k)]
    /\ query' = NoQuery
    /\ QueryFrame

\* DataStore::range(column, a..=b); a > b panics in BTreeMap::range.
Range(i, a, b) ==
    /\ LexLeq(a, b)
    /\ query' = [op |-> "range", a |-> a, b |-> b,
                 out |-> KeysDirRange(keys_dir[i], a, b)]
    /\ UNCHANGED keys_dir
    /\ QueryFrame

\* DataStore::prefix(column, p)
Prefix(i, p) ==
    /\ query' = [op |-> "prefix", a |-> p, b |-> p,
                 out |-> KeysDirPrefix(keys_dir[i], p)]
    /\ UNCHANGED keys_dir
    /\ QueryFrame

\* ------------------------------------------------------------- DBIterator
IterFrame ==
    UNCHANGED <<disk, clock, lock_holder, active_file, files_dir, keys_dir,
                buffer, dropped, flusher, clear_st, merge_st, last_op, nops,
                open_ctx, merge_hist, query, thr, memtable>>

\* Notus::iter: DBIterator::new snapshots keys() and clones the Arc.
\* History: nothing yielded yet, and the number of calls issued so far.
IterNew(i) ==
    /\ Usable(i)
    /\ ~iter[i].on
    /\ iter' = [iter EXCEPT ![i] =
           [on |-> TRUE, inner |-> KeysOf(i), cursor |-> 0, out |-> <<>>,
            ended |-> FALSE, fwd |-> FALSE, back |-> FALSE, at |-> nops]]
    /\ holders' = [holders EXCEPT ![i] = @ \cup {"iter"}]
    /\ UNCHANGED <<phase, buf_lock>>
    /\ IterFrame

\* The index into inner that next() reads, and the one next_back() reads
\* (negative if the checked subtractions fail).
NextIndexSkipsOne(it) == it.cursor + 1
NextIndex(it) == it.cursor
NextBackIndex(it) == Len(it.inner) - 1 - it.cursor

\* The iterator after a call that looks at inner[n] (counted from 0): the
\* call returns None if there is no such element or if store.get of the key
\* is not Ok(Some(_)); else it advances the cursor and yields the pair.
IterStep(i, it, n) ==
    IF n < 0 \/ n >= Len(it.inner) THEN [it EXCEPT !.ended = TRUE]
    ELSE LET key == it.inner[n + 1]
             got == Get(i, key)
         IN IF got \in {None, IOError, CorruptValue}
            THEN [it EXCEPT !.ended = TRUE]
            ELSE [it EXCEPT !.cursor = @ + 1, !.out = Append(@, <<key, got>>)]

\* Iterator::next; store.get takes the buffer's read lock.
IterNext(i) ==
    /\ iter[i].on
    /\ phase[i] = "open"
    /\ buf_lock[i] = "free"
    /\ iter' = [iter EXCEPT
           ![i] = [IterStep(i, iter[i], NextIndex(iter[i])) EXCEPT !.fwd = TRUE]]
    /\ UNCHANGED <<phase, buf_lock, holders>>
    /\ IterFrame

\* DoubleEndedIterator::next_back
IterNextBack(i) ==
    /\ iter[i].on
    /\ phase[i] = "open"
    /\ buf_lock[i] = "free"
    /\ iter' = [iter EXCEPT
           ![i] = [IterStep(i, iter[i], NextBackIndex(iter[i])) EXCEPT !.back = TRUE]]
    /\ UNCHANGED <<phase, buf_lock, holders>>
    /\ IterFrame

\* The iterator is dropped, and with it its Arc<DataStore>.
IterDrop(i) ==
    /\ iter[i].on
    /\ phase[i] = "open"
    /\ iter' = [iter EXCEPT ![i] = NoIter]
    /\ ReleaseArc(i, "iter")
    /\ IterFrame

\* ------------------------------------------------------------------ locks
\* The three RwLocks of a DataStore: buffer, keys_dir.keys and files_dir.
\* For every call, the acquisitions and releases it makes, in order; a guard
\* is released where it goes out of scope.  A KeysDir method takes the keys
\* lock for its own body only.  The loops of flush and merge repeat their
\* keydir calls; one turn is listed.
Acq(lock, mode) == <<"acq", lock, mode>>
Rel(lock, mode) == <<"rel", lock, mode>>

DataStoreCalls == {"put", "get", "delete", "contains", "clear", "flush", "merge"}

ClearHoldsKeys ==
    <<Acq("keys", "R"), Rel("keys", "R"), Acq("keys", "W"),
      Acq("buffer", "W"), Rel("buffer", "W"), Rel("keys", "W")>>
ClearProgram ==
    <<Acq("keys", "R"), Rel("keys", "R"), Acq("keys", "W"), Rel("keys", "W"),
      Acq("buffer", "W"), Rel("buffer", "W")>>

LockProgram(op) ==
    CASE op = "put" ->
             <<Acq("buffer", "W"), Acq("keys", "W"), Rel("keys", "W"),
               Rel("buffer", "W")>>
      [] op = "get" ->
             <<Acq("buffer", "R"), Acq("keys", "R"), Rel("keys", "R"),
               Acq("files_dir", "R"), Rel("files_dir", "R"), Rel("buffer", "R")>>
      [] op = "delete" ->
             <<Acq("buffer", "W"), Acq("keys", "W"), Rel("keys", "W"),
               Rel("buffer", "W")>>
      [] op = "contains" ->
             <<Acq("buffer", "R"), Acq("keys", "R"), Rel("keys", "R"),
               Rel("buffer", "R")>>
      [] op = "clear" -> ClearProgram
      [] op = "flush" ->
             <<Acq("buffer", "W"), Acq("keys", "W"), Rel("keys", "W"),
               Rel("buffer", "W")>>
      [] op = "merge" ->
             <<Acq("files_dir", "R"), Acq("keys", "R"), Rel("keys", "R"),
               Acq("keys", "W"), Rel("keys", "W"), Rel("files_dir", "R")>>
      [] OTHER -> <<>>

\* The guards thread t holds: acquired and not yet released.
Held(t) ==
    LET prog == LockProgram(thr[t].op) IN
    {g \in {"buffer", "keys", "files_dir"} \X {"R", "W"} :
        \E n \in 1..thr[t].pc :
            /\ prog[n] = Acq(g[1], g[2])
            /\ \A m \in (n + 1)..thr[t].pc : prog[m] # Rel(g[1], g[2])}

\* RwLock: write() waits for every guard of the lock, read() for a writer's.
CanAcquire(t, lock, mode) ==
    \A u \in Threads \ {t} :
        /\ <<lock, "W">> \notin Held(u)
        /\ mode = "W" => <<lock, "R">> \notin Held(u)

Running(t) == thr[t].op # "idle"

NextLockStep(t) == LockProgram(thr[t].op)[thr[t].pc + 1]

\* The next acquisition or release of thread t's call can be made.
CanStep(t) ==
    /\ Running(t)
    /\ NextLockStep(t)[1] = "acq" => CanAcquire(t, NextLockStep(t)[2], NextLockStep(t)[3])

LockFrame ==
    UNCHANGED <<disk, clock, lock_holder, phase, active_file, files_dir, keys_dir,
                buffer, buf_lock, dropped, holders, flusher, clear_st, merge_st,
                last_op, nops, open_ctx, merge_hist, query, iter, memtable>>

\* Thread t calls a DataStore method.
LockCall(t, op) ==
    /\ ~Running(t)
    /\ thr' = [thr EXCEPT ![t] = [op |-> op, pc |-> 0]]
    /\ LockFrame

\* Thread t's call makes its next acquisition or release; after the last
\* one it returns.
LockStep(t) ==
    /\ CanStep(t)
    /\ thr' = [thr EXCEPT ![t] =
           IF thr[t].pc + 1 = Len(LockProgram(thr[t].op)) THEN IdleThread
           ELSE [@ EXCEPT !.pc = @ + 1]]
    /\ LockFrame

\* ------------------------------------------------------------ environment
\* A byte of the value of the record at position pos of data file f is
\* damaged on disk: the record now carries another value under its old CRC.
Corrupt(f, pos) ==
    /\ disk[f].exists
    /\ pos < Len(disk[f].data)
    /\ CheckCrc(Read(disk, f, pos))
    /\ \E v \in Values \ {Read(disk, f, pos).value} :
           disk' = [disk EXCEPT ![f].data[pos + 1].value = v]
    /\ UNCHANGED <<query, iter, thr, memtable>>
    /\ UNCHANGED <<clock, lock_holder, phase, active_file, files_dir, keys_dir,
                   buffer, buf_lock, dropped, holders, flusher, clear_st,
                   merge_st, last_op, nops, open_ctx, merge_hist>>

\* The process died while it appended the last hint record of pair f: the
\* record is torn.  Found when no instance is alive.
TearHintTail(f) ==
    /\ \A i \in Inst : phase[i] = "none"
    /\ disk[f].exists
    /\ disk[f].hint # <<>>
    /\ HintDecodes(disk[f].hint[Len(disk[f].hint)])
    /\ disk' = [disk EXCEPT ![f].hint[Len(disk[f].hint)] = TornHintEntry(@)]
    /\ UNCHANGED <<query, iter, thr, memtable>>
    /\ UNCHANGED <<clock, lock_holder, phase, active_file, files_dir, keys_dir,
                   buffer, buf_lock, dropped, holders, flusher, clear_st,
                   merge_st, last_op, nops, open_ctx, merge_hist>>

\* The .hint file of pair f is gone from the directory, its .data file is
\* still there.  Found when no instance is alive.
LoseHintFile(f) ==
    /\ \A i \in Inst : phase[i] = "none"
    /\ disk[f].exists
    /\ ~disk[f].hint_missing
    /\ disk' = [disk EXCEPT ![f].hint = <<>>, ![f].hint_missing = TRUE]
    /\ UNCHANGED <<query, iter, thr, memtable>>
    /\ UNCHANGED <<clock, lock_holder, phase, active_file, files_dir, keys_dir,
                   buffer, buf_lock, dropped, holders, flusher, clear_st,
                   merge_st, last_op, nops, open_ctx, merge_hist>>

\* ------------------------------------------------------------------ clear
\* DataStore::clear, its first statement: raw_keys() snapshots the keydir.
\* The keys present at this moment are the ones the clear is to remove.
ClearBegin(i) ==
    /\ Usable(i)
    /\ nops < MaxOps
    /\ clear_st' = [clear_st EXCEPT
           ![i] = [pc |-> "remove", keys |-> KeysDirRawKeys(keys_dir[i])]]
    /\ last_op' = [k \in Keys |->
                     IF Contains(i, k)
                     THEN [op |-> "clear", value |-> None, by |-> i, present |-> TRUE]
                     ELSE last_op[k]]
    /\ nops' = nops + 1
    /\ UNCHANGED <<query, iter, thr, memtable>>
    /\ UNCHANGED <<disk, clock, lock_holder, phase, active_file, files_dir,
                   keys_dir, buffer, buf_lock, dropped, holders, flusher,
                   merge_st, open_ctx, merge_hist>>

\* One turn of clear's loop: a tombstone for the next key of the snapshot.
ClearRemove(i) ==
    /\ clear_st[i].pc = "remove"
    /\ clear_st[i].keys # <<>>
    /\ disk' = Remove(disk, active_file[i], Head(clear_st[i].keys))
    /\ clear_st' = [clear_st EXCEPT ![i].keys = Tail(@)]
    /\ UNCHANGED <<query, iter, thr, memtable>>
    /\ UNCHANGED <<clock, lock_holder, phase, active_file, files_dir, keys_dir,
                   buffer, buf_lock, dropped, holders, flusher, merge_st,
                   last_op, nops, open_ctx, merge_hist>>

\* self.keys_dir.clear()
ClearKeysDir(i) ==
    /\ clear_st[i].pc = "remove"
    /\ clear_st[i].keys = <<>>
    /\ keys_dir' = [keys_dir EXCEPT ![i] = KeysDirClear(@)]
    /\ clear_st' = [clear_st EXCEPT ![i].pc = "buffer"]
    /\ UNCHANGED <<query, iter, thr, memtable>>
    /\ UNCHANGED <<disk, clock, lock_holder, phase, active_file, files_dir,
                   buffer, buf_lock, dropped, holders, flusher, merge_st,
                   last_op, nops, open_ctx, merge_hist>>

\* clear takes the buffer's write lock only now, empties the buffer and
\* returns Ok.
ClearBuffer(i) ==
    /\ clear_st[i].pc = "buffer"
    /\ buf_lock[i] = "free"
    /\ buffer' = [buffer EXCEPT ![i] = EmptyBuffer]
    /\ clear_st' = [clear_st EXCEPT ![i] = IdleClear]
    /\ UNCHANGED <<query, iter, thr, memtable>>
    /\ UNCHANGED <<disk, clock, lock_holder, phase, active_file, files_dir,
                   keys_dir, buf_lock, dropped, holders, flusher, merge_st,
                   last_op, nops, open_ctx, merge_hist>>

Clear(i) ==
    \/ ClearBegin(i)
    \/ ClearRemove(i)
    \/ ClearKeysDir(i)
    \/ ClearBuffer(i)

\* ------------------------------------------------------------------ merge
\* The iteration order of files_dir, a BTreeMap keyed by file id.
RECURSIVE Ascending(_)
Ascending(S) ==
    IF S = {} THEN <<>>
    ELSE LET m == CHOOSE x \in S : \A y \in S : x <= y
         IN <<m>> \o Ascending(S \ {m})

\* DataStore::merge, up to its loop: the merged pair is created under the
\* id the clock gives and files_dir is read-locked.
MergeBegin(i) ==
    /\ Usable(i)
    /\ merge_hist.count < MaxMerges
    /\ clock \in FileIds
    /\ disk' = [disk EXCEPT ![clock] = EmptyPair]
    /\ clock' = clock + 1
    /\ merge_st' = [merge_st EXCEPT
           ![i] = [pc |-> "files", merged_file_pair |-> clock,
                   todo |-> Ascending(files_dir[i]), fp |-> 0, hints |-> <<>>,
                   data_entry |-> DataEntry(BufferKey(<<>>), None),
                   mark_for_removal |-> {}]]
    /\ merge_hist' = [count |-> merge_hist.count + 1, by |-> i, at |-> nops,
                      ok |-> FALSE, before |-> Obs(i),
                      after_ok |-> merge_hist.ok /\ merge_hist.by = i]
    /\ UNCHANGED <<query, iter, thr, memtable>>
    /\ UNCHANGED <<lock_holder, phase, active_file, files_dir, keys_dir, buffer,
                   buf_lock, dropped, holders, flusher, clear_st, last_op, nops,
                   open_ctx>>

\* The outer loop takes the next pair: the active pair is skipped, of any
\* other its hints are loaded; merge returns Err if they cannot be.
MergeNextFile(i) ==
    /\ merge_st[i].pc = "files"
    /\ merge_st[i].todo # <<>>
    /\ LET fp == Head(merge_st[i].todo) IN
       merge_st' = [merge_st EXCEPT ![i] =
           IF fp = active_file[i] THEN [@ EXCEPT !.todo = Tail(@)]
           ELSE IF ~HintOpens(disk, fp) THEN IdleMerge
           ELSE [@ EXCEPT !.todo = Tail(@), !.pc = "hints", !.fp = fp,
                          !.hints = GetHints(disk, fp)]]
    /\ UNCHANGED <<query, iter, thr, memtable>>
    /\ UNCHANGED <<disk, clock, lock_holder, phase, active_file, files_dir,
                   keys_dir, buffer, buf_lock, dropped, holders, flusher,
                   clear_st, last_op, nops, open_ctx, merge_hist>>

\* The inner loop takes the next hint: if the keydir's entry of the hint's
\* key lies in this pair, the record at the hint's position is read; merge
\* returns Err if there is none.
MergeHint(i) ==
    /\ merge_st[i].pc = "hints"
    /\ merge_st[i].hints # <<>>
    /\ LET hint == Head(merge_st[i].hints)
           raw_key == Deserialize(hint.key)
           keys_dir_entry == KeysDirGet(keys_dir[i], raw_key[2])
           fp == merge_st[i].fp
       IN merge_st' = [merge_st EXCEPT ![i] =
           IF keys_dir_entry.st = "Persisted" /\ keys_dir_entry.file_id = fp
           THEN IF ReadOk(disk, fp, hint.data_entry_position)
                THEN [@ EXCEPT !.pc = "write",
                               !.data_entry = Read(disk, fp, hint.data_entry_position)]
                ELSE IdleMerge
           ELSE [@ EXCEPT !.hints = Tail(@)]]
    /\ UNCHANGED <<query, iter, thr, memtable>>
    /\ UNCHANGED <<disk, clock, lock_holder, phase, active_file, files_dir,
                   keys_dir, buffer, buf_lock, dropped, holders, flusher,
                   clear_st, last_op, nops, open_ctx, merge_hist>>

\* The record is appended to the merged pair and the keydir's entry of the
\* hint's key is pointed at it.
MergeWrite(i) ==
    /\ merge_st[i].pc = "write"
    /\ LET raw_key == Deserialize(Head(merge_st[i].hints).key)
           m == merge_st[i].merged_file_pair
           key_entry == Persisted(m, WritePosition(disk, m))
       IN /\ disk' = Write(disk, m, merge_st[i].data_entry)
          /\ keys_dir' = [keys_dir EXCEPT
                 ![i] = KeysDirInsert(@, raw_key[2], key_entry)]
    /\ merge_st' = [merge_st EXCEPT ![i].pc = "hints", ![i].hints = Tail(@)]
    /\ UNCHANGED <<query, iter, thr, memtable>>
    /\ UNCHANGED <<clock, lock_holder, phase, active_file, files_dir, buffer,
                   buf_lock, dropped, holders, flusher, clear_st, last_op, nops,
                   open_ctx, merge_hist>>

\* merged_file_pair.write(&data_entry)? fails: merge returns the error.
MergeWriteFail(i) ==
    /\ merge_st[i].pc = "write"
    /\ merge_st' = [merge_st EXCEPT ![i] = IdleMerge]
    /\ UNCHANGED <<query, iter, thr, memtable>>
    /\ UNCHANGED <<disk, clock, lock_holder, phase, active_file, files_dir,
                   keys_dir, buffer, buf_lock, dropped, holders, flusher,
                   clear_st, last_op, nops, open_ctx, merge_hist>>

\* The pair's hints are done: its two paths are marked for removal.
MergeMark(i) ==
    /\ merge_st[i].pc = "hints"
    /\ merge_st[i].hints = <<>>
    /\ merge_st' = [merge_st EXCEPT
           ![i].pc = "files",
           ![i].mark_for_removal = @ \cup {merge_st[i].fp}]
    /\ UNCHANGED <<query, iter, thr, memtable>>
    /\ UNCHANGED <<disk, clock, lock_holder, phase, active_file, files_dir,
                   keys_dir, buffer, buf_lock, dropped, holders, flusher,
                   clear_st, last_op, nops, open_ctx, merge_hist>>

\* fs_extra::remove_items, and merge returns Ok.  files_dir is left as it
\* was: it still lists the removed pairs and does not list the merged one.
MergeEnd(i) ==
    /\ merge_st[i].pc = "files"
    /\ merge_st[i].todo = <<>>
    /\ disk' = [f \in FileIds |->
                  IF f \in merge_st[i].mark_for_removal THEN NoPair ELSE disk[f]]
    /\ merge_st' = [merge_st EXCEPT ![i] = IdleMerge]
    /\ merge_hist' = [merge_hist EXCEPT !.ok = TRUE]
    /\ UNCHANGED <<query, iter, thr, memtable>>
    /\ UNCHANGED <<clock, lock_holder, phase, active_file, files_dir, keys_dir,
                   buffer, buf_lock, dropped, holders, flusher, clear_st,
                   last_op, nops, open_ctx>>

\* DataStore::merge called again in the session of a merge that returned Ok.
MergeAgain(i) ==
    /\ Usable(i)
    /\ buf_lock[i] = "free"
    /\ merge_st[i].pc = "idle"
    /\ merge_hist.count = MaxMerges
    /\ merge_hist.ok /\ merge_hist.by = i
    /\ clock \in FileIds
    /\ disk' = [disk EXCEPT ![clock] = EmptyPair]
    /\ clock' = clock + 1
    /\ merge_st' = [merge_st EXCEPT
           ![i] = [pc |-> "files", merged_file_pair |-> clock,
                   todo |-> Ascending(files_dir[i]), fp |-> 0, hints |-> <<>>,
                   data_entry |-> DataEntry(BufferKey(<<>>), None),
                   mark_for_removal |-> {}]]
    /\ merge_hist' = [count |-> merge_hist.count + 1, by |-> i, at |-> nops,
                      ok |-> FALSE, before |-> Obs(i), after_ok |-> TRUE]
    /\ UNCHANGED <<query, iter, thr, memtable>>
    /\ UNCHANGED <<lock_holder, phase, active_file, files_dir, keys_dir, buffer,
                   buf_lock, dropped, holders, flusher, clear_st, last_op, nops,
                   open_ctx>>

\* A merge called while no flush is running.
MergeBeginQuiet(i) == buf_lock[i] = "free" /\ MergeBegin(i)

Merge(i) ==
    \/ MergeBeginQuiet(i)
    \/ MergeNextFile(i)
    \/ MergeHint(i)
    \/ MergeWrite(i)
    \/ MergeMark(i)
    \/ MergeEnd(i)

\* ---------------------------------------------------------- specification
\* One session at a time: an open starts when no other instance exists.
Sequential(i) == \A j \in Inst \ {i} : phase[j] = "none"

Open(i) ==
    \/ Sequential(i) /\ OpenCreate(i)
    \/ OpenDiscover(i)
    \/ OpenReplay(i)
    \/ OpenLock(i)

Close(i) ==
    \/ NotusDropFlag(i)
    \/ NotusDropArc(i)
    \/ DropEnd(i)

\* The sessions of Spec follow one another in instance "a".
Next ==
    \E i \in {"a"} :
        \/ Open(i)
        \/ \E k \in Keys, v \in Values : Put(i, k, v)
        \/ \E k \in Keys : Delete(i, k)
        \/ FlushBegin(i)
        \/ FlushDrain(i)
        \/ FlushEnd(i)
        \/ FlusherWake(i)
        \/ Close(i)

Spec == Init /\ [][Next]_vars

\* The sessions of SpecClear are those of Spec, with clear among the calls
\* of the client.
NextClear ==
    \E i \in {"a"} :
        \/ Open(i)
        \/ \E k \in Keys, v \in Values : Put(i, k, v)
        \/ \E k \in Keys : Delete(i, k)
        \/ Clear(i)
        \/ FlushBegin(i)
        \/ FlushDrain(i)
        \/ FlushEnd(i)
        \/ FlusherWake(i)
        \/ Close(i)

SpecClear == Init /\ [][NextClear]_vars

\* The worker's turn while no merge is running.
FlusherWakeQuiet(i) == merge_st[i].pc = "idle" /\ FlusherWake(i)

\* The sessions of SpecMerge: puts, deletes and merges of one client, with
\* nothing running beside a merge (the worker starts no flush during one).
NextMerge ==
    \E i \in {"a"} :
        \/ Open(i)
        \/ \E k \in Keys, v \in Values : Put(i, k, v)
        \/ \E k \in Keys : Delete(i, k)
        \/ Merge(i)
        \/ FlushDrain(i)
        \/ FlushEnd(i)
        \/ FlusherWakeQuiet(i)
        \/ Close(i)

SpecMerge == Init /\ [][NextMerge]_vars

\* The sessions of SpecMergeAgain are those of SpecMerge, with a second
\* merge after one that returned Ok.
NextMergeAgain ==
    \E i \in {"a"} :
        \/ Open(i)
        \/ \E k \in Keys, v \in Values : Put(i, k, v)
        \/ \E k \in Keys : Delete(i, k)
        \/ Merge(i)
        \/ MergeAgain(i)
        \/ FlushDrain(i)
        \/ FlushEnd(i)
        \/ FlusherWakeQuiet(i)
        \/ Close(i)

SpecMergeAgain == Init /\ [][NextMergeAgain]_vars

\* A record is damaged before any merge was called.
CorruptBeforeMerge(f, pos) == merge_hist.count = 0 /\ Corrupt(f, pos)

\* The sessions of SpecMergeFail are those of SpecMerge on a disk that has
\* damaged records and can fail an append to the merged pair.
NextMergeFail ==
    \/ \E i \in {"a"} :
        \/ Open(i)
        \/ \E k \in Keys, v \in Values : Put(i, k, v)
        \/ \E k \in Keys : Delete(i, k)
        \/ Merge(i)
        \/ MergeWriteFail(i)
        \/ FlushDrain(i)
        \/ FlushEnd(i)
        \/ FlusherWakeQuiet(i)
        \/ Close(i)
    \/ \E f \in FileIds, pos \in 0..(MaxOps - 1) : CorruptBeforeMerge(f, pos)

SpecMergeFail == Init /\ [][NextMergeFail]_vars

\* A put while fewer than MaxOps - 1 calls were issued.
PutFew(i, k, v) == nops < MaxOps - 1 /\ Put(i, k, v)

\* SpecFail: the sessions of Spec on a disk whose appends may fail.
NextFail ==
    \E i \in {"a"} :
        \/ Open(i)
        \/ \E k \in Keys, v \in Values : Put(i, k, v)
        \/ \E k \in Keys : Delete(i, k)
        \/ FlushBegin(i)
        \/ FlushDrain(i)
        \/ FlushFail(i)
        \/ FlushEnd(i)
        \/ FlusherWake(i)
        \/ Close(i)

SpecFail == Init /\ [][NextFail]_vars

\* The sessions of SpecDeleteFail are those of Spec on a disk that can fail
\* the append of a tombstone.
NextDeleteFail ==
    \E i \in {"a"} :
        \/ Open(i)
        \/ \E k \in Keys, v \in Values : Put(i, k, v)
        \/ \E k \in Keys : Delete(i, k)
        \/ \E k \in Keys : DeleteFail(i, k)
        \/ FlushBegin(i)
        \/ FlushDrain(i)
        \/ FlushEnd(i)
        \/ FlusherWake(i)
        \/ Close(i)

SpecDeleteFail == Init /\ [][NextDeleteFail]_vars

\* SpecCorrupt: the sessions of Spec on a disk that damages records.
NextCorrupt ==
    \/ \E i \in {"a"} :
        \/ Open(i)
        \/ \E k \in Keys, v \in Values : Put(i, k, v)
        \/ \E k \in Keys : Delete(i, k)
        \/ FlushBegin(i)
        \/ FlushDrain(i)
        \/ FlushEnd(i)
        \/ FlusherWake(i)
        \/ Close(i)
    \/ \E f \in FileIds, pos \in 0..(MaxOps - 1) : Corrupt(f, pos)

SpecCorrupt == Init /\ [][NextCorrupt]_vars

\* SpecQuery: a keydir over QueryKeys of at most MaxPresent keys, changed by
\* the keydir calls and read by range and prefix.
InitQuery ==
    /\ keys_dir = [i \in Inst |-> [k \in QueryKeys |-> Absent]]
    /\ InitOther

NextQuery ==
    \E i \in {"a"} :
        \/ \E k \in QueryKeys : QPartialInsert(i, k)
        \/ \E k \in QueryKeys : QInsert(i, k)
        \/ \E k \in QueryKeys : QRemove(i, k)
        \/ \E a, b \in QueryKeys : Range(i, a, b)
        \/ \E p \in QueryKeys : Prefix(i, p)

SpecQuery == InitQuery /\ [][NextQuery]_vars

\* ---------------------------------------------------------------- MemTable
MaxMemOps == 4
MaxValueLen == 11
MaxTime == 2

\* The sizes insert and remove count for the timestamp and the tombstone.
TimestampSize == 8
TombstoneSize == 1

MemKeys == {<<1>>, <<1, 1>>, <<2>>}
MemValues == {<<>>, <<1>>, [n \in 1..MaxValueLen |-> 1]}
Times == 1..MaxTime

\* Option<Vec<u8>>
SomeBytes(v) == [some |-> TRUE, v |-> v]
NoBytes == [some |-> FALSE, v |-> <<>>]

MemTableEntry(key, value, tombstone, timestamp) ==
    [key |-> key, value |-> value, tombstone |-> tombstone, timestamp |-> timestamp]

\* slice::binary_search_by_key on entries[lo..hi] (0-based, hi exclusive):
\* <<"Ok", index>> of an entry with the key, or <<"Err", index>> of the
\* place where the search ended.
RECURSIVE BinarySearch(_, _, _, _)
BinarySearch(entries, key, lo, hi) ==
    IF lo >= hi THEN <<"Err", lo>>
    ELSE LET mid == lo + ((hi - lo) \div 2)
             k == entries[mid + 1].key
         IN IF k = key THEN <<"Ok", mid>>
            ELSE IF LexLeq(k, key) THEN BinarySearch(entries, key, mid + 1, hi)
            ELSE BinarySearch(entries, key, lo, mid)

\* MemTable::get_index
GetIndex(mt, key) == BinarySearch(mt.entries, key, 0, Len(mt.entries))

\* Vec::push in place of Vec::insert.
VecPush(entries, index, entry) == Append(entries, entry)

\* Vec::insert(index, entry), index 0-based.
VecInsert(entries, index, entry) ==
    SubSeq(entries, 1, index) \o <<entry>> \o SubSeq(entries, index + 1, Len(entries))

\* MemTable::get: the entry, or an absent one for None.
NoEntry == [key |-> <<>>, value |-> NoBytes, tombstone |-> FALSE, timestamp |-> 0,
            found |-> FALSE]
MemGet(mt, key) ==
    LET r == GetIndex(mt, key) IN
    IF r[1] = "Ok"
    THEN [key |-> mt.entries[r[2] + 1].key, value |-> mt.entries[r[2] + 1].value,
          tombstone |-> mt.entries[r[2] + 1].tombstone,
          timestamp |-> mt.entries[r[2] + 1].timestamp, found |-> TRUE]
    ELSE NoEntry

MemFrame ==
    UNCHANGED <<disk, clock, lock_holder, phase, active_file, files_dir, keys_dir,
                buffer, buf_lock, dropped, holders, flusher, clear_st, merge_st,
                last_op, nops, open_ctx, merge_hist, query, iter, thr>>

\* self.size -= n on a usize smaller than n: the debug build panics there,
\* the release build wraps around 2^64.  Either way the size is no longer a
\* count of bytes; the table is not used further.
Underflows(mt) == [mt EXCEPT !.underflow = TRUE]

\* MemTable::insert at time now.  History: the call is logged.
MemInsert(key, value, now) ==
    LET entry == MemTableEntry(key, SomeBytes(value), FALSE, now)
        r == GetIndex(memtable, key)
        index == r[2]
        old == memtable.entries[index + 1].value
        log == Append(memtable.last, [op |-> "insert", key |-> key, value |-> value])
    IN
    /\ ~memtable.underflow
    /\ Len(memtable.last) < MaxMemOps
    /\ memtable' =
          IF r[1] = "Ok"
          THEN IF old.some /\ Len(value) < Len(old.v)
                  /\ memtable.size < Len(old.v) - Len(value)
               THEN Underflows(memtable)
               ELSE [memtable EXCEPT
                        !.size = IF ~old.some THEN @
                                 ELSE IF Len(value) < Len(old.v)
                                      THEN @ - (Len(old.v) - Len(value))
                                      ELSE @ + (Len(value) - Len(old.v)),
                        !.entries = [@ EXCEPT ![index + 1] = entry],
                        !.last = log]
          ELSE [memtable EXCEPT
                   !.size = @ + Len(key) + Len(value) + TimestampSize + TombstoneSize,
                   !.entries = VecInsert(@, index, entry),
                   !.last = log]
    /\ MemFrame

\* MemTable::remove at time now.  History: the call is logged.
MemRemove(key, now) ==
    LET entry == MemTableEntry(key, NoBytes, TRUE, now)
        r == GetIndex(memtable, key)
        index == r[2]
        old == memtable.entries[index + 1].value
        log == Append(memtable.last, [op |-> "remove", key |-> key, value |-> <<>>])
    IN
    /\ ~memtable.underflow
    /\ Len(memtable.last) < MaxMemOps
    /\ memtable' =
          IF r[1] = "Ok"
          THEN IF old.some /\ memtable.size < Len(old.v)
               THEN Underflows(memtable)
               ELSE [memtable EXCEPT
                        !.size = IF old.some THEN @ - Len(old.v) ELSE @,
                        !.entries = [@ EXCEPT ![index + 1] = entry],
                        !.last = log]
          ELSE [memtable EXCEPT
                   !.size = @ + Len(key) + TimestampSize + TombstoneSize,
                   !.entries = VecInsert(@, index, entry),
                   !.last = log]
    /\ MemFrame

\* SpecMemTable: the calls on one MemTable.
NextMemTable ==
    \/ \E key \in MemKeys, value \in MemValues, now \in Times : MemInsert(key, value, now)
    \/ \E key \in MemKeys, now \in Times : MemRemove(key, now)

SpecMemTable == Init /\ [][NextMemTable]_vars

\* ------------------------------------------------------------------ facade
\* The keys a caller of the facade passes: the empty key and the keys.
FacadeKeys == {<<>>} \cup Keys

\* Notus::put
NotusPut(i, k, v) == Put(i, k, v)

\* Notus::get
NotusGet(i, k) == IF k = <<>> THEN None ELSE Get(i, k)

\* Notus::contains
NotusContains(i, k) == IF k = <<>> THEN FALSE ELSE Contains(i, k)

\* Notus::delete; for the empty key it returns Ok at once.
\* History: the call is recorded as the last one on its key.
NotusDelete(i, k) ==
    IF k = <<>>
    THEN /\ Usable(i)
         /\ buf_lock[i] = "free"
         /\ nops < MaxOps
         /\ last_op' = [last_op EXCEPT ![k] =
                [op |-> "delete", value |-> None, by |-> i,
                 present |-> Contains(i, k)]]
         /\ nops' = nops + 1
         /\ UNCHANGED <<query, iter, thr, memtable>>
         /\ UNCHANGED <<disk, clock, lock_holder, phase, active_file, files_dir,
                        keys_dir, buffer, buf_lock, dropped, holders, flusher,
                        clear_st, merge_st, open_ctx, merge_hist>>
    ELSE Delete(i, k)

\* SpecFacade: instance "a" has been opened on an empty directory; its
\* buffer and keydir range over FacadeKeys, and the client calls put and
\* delete of the facade between two turns of the worker.
InitFacade ==
    /\ disk = [f \in FileIds |-> IF f = 1 THEN EmptyPair ELSE NoPair]
    /\ clock = 2
    /\ lock_holder = "a"
    /\ phase = [i \in Inst |-> IF i = "a" THEN "open" ELSE "none"]
    /\ active_file = [i \in Inst |-> IF i = "a" THEN 1 ELSE 0]
    /\ files_dir = [i \in Inst |-> IF i = "a" THEN {1} ELSE {}]
    /\ keys_dir = [i \in Inst |-> [k \in FacadeKeys |-> Absent]]
    /\ buffer = [i \in Inst |-> [k \in {BufferKey(x) : x \in FacadeKeys} |-> None]]
    /\ buf_lock = [i \in Inst |-> "free"]
    /\ dropped = [i \in Inst |-> FALSE]
    /\ holders = [i \in Inst |-> IF i = "a" THEN {"flusher", "notus"} ELSE {}]
    /\ flusher = [i \in Inst |-> IF i = "a" THEN "sleep" ELSE "none"]
    /\ clear_st = [i \in Inst |-> IdleClear]
    /\ merge_st = [i \in Inst |-> IdleMerge]
    /\ last_op = [k \in FacadeKeys |-> NoOp]
    /\ nops = 0
    /\ open_ctx = [i \in Inst |->
                     IF i = "a" THEN [NoContext EXCEPT !.kind = "after_drop"]
                     ELSE NoContext]
    /\ merge_hist = NoMerge
    /\ query = NoQuery
    /\ iter = [i \in Inst |-> NoIter]
    /\ thr = [t \in Threads |-> IdleThread]
    /\ memtable = EmptyMemTable

NextFacade ==
    \E i \in {"a"} :
        \/ \E k \in FacadeKeys, v \in Values : NotusPut(i, k, v)
        \/ \E k \in FacadeKeys : NotusDelete(i, k)

SpecFacade == InitFacade /\ [][NextFacade]_vars

\* A put while the client has no iterator.
PutNoIter(i, k, v) == ~iter[i].on /\ Put(i, k, v)

\* SpecIter: the sessions of one client that iterates; while it has an
\* iterator it may delete, but puts nothing.
NextIter ==
    \E i \in {"a"} :
        \/ Open(i)
        \/ \E k \in Keys, v \in Values : PutNoIter(i, k, v)
        \/ \E k \in Keys : Delete(i, k)
        \/ IterNew(i)
        \/ IterNext(i)
        \/ IterNextBack(i)
        \/ IterDrop(i)
        \/ FlushDrain(i)
        \/ FlushEnd(i)
        \/ FlusherWake(i)
        \/ Close(i)

SpecIter == Init /\ [][NextIter]_vars

\* A put of a second thread while the first thread's merge is running.
PutBesideMerge(i, k, v) == merge_st[i].pc # "idle" /\ PutBy(i, k, v)

\* SpecMergePut: SpecMerge with puts of a second thread and flushes of the
\* worker beside the merge.
NextMergePut ==
    \E i \in {"a"} :
        \/ Open(i)
        \/ \E k \in Keys, v \in Values : Put(i, k, v)
        \/ \E k \in Keys, v \in Values : PutBesideMerge(i, k, v)
        \/ Merge(i)
        \/ FlushDrain(i)
        \/ FlushEnd(i)
        \/ FlusherWake(i)
        \/ Close(i)

SpecMergePut == Init /\ [][NextMergePut]_vars

\* A put of a second thread while the first thread's clear is running.
PutBesideClear(i, k, v) == clear_st[i].pc # "idle" /\ PutBy(i, k, v)

\* SpecClearPut: SpecClear with puts of a second thread beside the clear.
NextClearPut ==
    \E i \in {"a"} :
        \/ Open(i)
        \/ \E k \in Keys, v \in Values : Put(i, k, v)
        \/ \E k \in Keys, v \in Values : PutBesideClear(i, k, v)
        \/ Clear(i)
        \/ FlushDrain(i)
        \/ FlushEnd(i)
        \/ FlusherWake(i)
        \/ Close(i)

SpecClearPut == Init /\ [][NextClearPut]_vars

\* A delete of a second thread while the first thread's merge is running.
DeleteBesideMerge(i, k) == merge_st[i].pc # "idle" /\ DeleteBy(i, k)

\* SpecMergeDelete: SpecMerge with deletes of a second thread beside the
\* merge.
NextMergeDelete ==
    \E i \in {"a"} :
        \/ Open(i)
        \/ \E k \in Keys, v \in Values : Put(i, k, v)
        \/ \E k \in Keys : Delete(i, k)
        \/ \E k \in Keys : DeleteBesideMerge(i, k)
        \/ Merge(i)
        \/ FlushDrain(i)
        \/ FlushEnd(i)
        \/ FlusherWakeQuiet(i)
        \/ Close(i)

SpecMergeDelete == Init /\ [][NextMergeDelete]_vars

\* SpecUnflushed: the sessions of Spec on a disk whose appends may fail,
\* before anything is buffered or when the buffered bytes are flushed.
NextUnflushed ==
    \E i \in {"a"} :
        \/ Open(i)
        \/ \E k \in Keys, v \in Values : Put(i, k, v)
        \/ \E k \in Keys : Delete(i, k)
        \/ FlushBegin(i)
        \/ FlushDrain(i)
        \/ FlushDrainUnflushed(i)
        \/ FlushFail(i)
        \/ FlushEnd(i)
        \/ FlusherWake(i)
        \/ Close(i)

SpecUnflushed == Init /\ [][NextUnflushed]_vars

\* SpecAll: the sessions of one client that makes every call: put, delete,
\* clear, flush and merge, the worker flushing beside them.
NextAll ==
    \E i \in {"a"} :
        \/ Open(i)
        \/ \E k \in Keys, v \in Values : Put(i, k, v)
        \/ \E k \in Keys : Delete(i, k)
        \/ Clear(i)
        \/ Merge(i)
        \/ FlushBegin(i)
        \/ FlushDrain(i)
        \/ FlushEnd(i)
        \/ FlusherWake(i)
        \/ Close(i)

SpecAll == Init /\ [][NextAll]_vars

\* SpecTorn: the sessions of Spec on a disk whose hint files may end in a
\* torn record.
NextTorn ==
    \/ \E i \in {"a"} :
        \/ Open(i)
        \/ \E k \in Keys, v \in Values : Put(i, k, v)
        \/ \E k \in Keys : Delete(i, k)
        \/ FlushBegin(i)
        \/ FlushDrain(i)
        \/ FlushEnd(i)
        \/ FlusherWake(i)
        \/ Close(i)
    \/ \E f \in FileIds : TearHintTail(f)

SpecTorn == Init /\ [][NextTorn]_vars

\* SpecNoHint: the sessions of Spec on a directory that may lose .hint files.
NextNoHint ==
    \/ \E i \in {"a"} :
        \/ Open(i)
        \/ \E k \in Keys, v \in Values : Put(i, k, v)
        \/ \E k \in Keys : Delete(i, k)
        \/ FlushBegin(i)
        \/ FlushDrain(i)
        \/ FlushEnd(i)
        \/ FlusherWake(i)
        \/ Close(i)
    \/ \E f \in FileIds : LoseHintFile(f)

SpecNoHint == Init /\ [][NextNoHint]_vars

\* The threads of the store are scheduled fairly: the worker wakes from its
\* sleep, a running flush goes on and returns, a running drop finishes.
Fairness ==
    \A i \in {"a"} :
        /\ WF_vars(FlusherWake(i))
        /\ WF_vars(FlushDrain(i))
        /\ WF_vars(FlushEnd(i))
        /\ WF_vars(NotusDropArc(i))
        /\ WF_vars(DropEnd(i))

\* SpecLive: Spec under fair scheduling.
SpecLive == Init /\ [][Next]_vars /\ Fairness

\* SpecLocks: the threads that share one DataStore (clients and the worker)
\* and the locks their calls take.
NextLocks ==
    \E t \in Threads :
        \/ \E op \in DataStoreCalls : LockCall(t, op)
        \/ LockStep(t)

SpecLocks == Init /\ [][NextLocks]_vars

\* SpecOpen: two instances on the directory; an open may be called at any
\* time, also while the other instance is open or is being dropped.
NextOpen ==
    \E i \in Inst :
        \/ OpenCreate(i)
        \/ OpenDiscover(i)
        \/ OpenReplay(i)
        \/ OpenLock(i)
        \/ \E k \in Keys, v \in Values : PutFew(i, k, v)
        \/ FlushDrain(i)
        \/ FlushEnd(i)
        \/ FlusherWake(i)
        \/ Close(i)

SpecOpen == Init /\ [][NextOpen]_vars

\* ----------------------------------------------------------- observations
\* No writer holds the buffer lock: a get or contains of the client returns.
Readable(i) == Usable(i) /\ buf_lock[i] = "free"

\* The session has issued nothing yet: its active pair and buffer are empty.
Fresh(i) ==
    /\ Readable(i)
    /\ buffer[i] = EmptyBuffer
    /\ disk[active_file[i]].hint = <<>>

LiveHintIn(f, k) ==
    \E n \in 1..Len(disk[f].hint) :
        disk[f].hint[n].key = BufferKey(k) /\ ~disk[f].hint[n].deleted

TombstoneIn(f, k) ==
    \E n \in 1..Len(disk[f].hint) :
        disk[f].hint[n].key = BufferKey(k) /\ disk[f].hint[n].deleted

\* What a close of instance i followed by a reopen would observe: the buffer
\* drained to the active pair (DataStore::drop), then DataStore::open's
\* discovery and replay.
RECURSIVE DrainAll(_, _, _)
DrainAll(d, b, f) ==
    IF b = EmptyBuffer THEN d
    ELSE LET sk == CHOOSE x \in SerKeys : b[x] # None
         IN DrainAll(Write(d, f, DataEntry(sk, b[sk])), [b EXCEPT ![sk] = None], f)

ReopenObsFrom(b, d, f) ==
    LET d2 == DrainAll(d, b, f)
        fd == FetchFilePairs(d2)
    IN ObsFrom(EmptyBuffer, KeysDirNew(d2, fd), fd, d2)

ReopenObs(i) == ReopenObsFrom(buffer[i], disk, active_file[i])

\* ------------------------------------------------------------------ claims
\* C1: after any sequence of puts and deletes followed by a close and a
\* reopen, keys() and get(K) of the reopened store equal the last-write-wins
\* fold of the sequence.
C1_ReopenIsFold ==
    \A i \in Inst :
        Fresh(i) =>
            /\ KeysOf(i) = FoldKeys
            /\ \A k \in Keys : Get(i, k) = Fold(k)

\* A reopened store, one key live and another deleted after it was persisted.
C1_Witness ==
    \E i \in Inst, k1, k2 \in Keys :
        /\ Fresh(i)
        /\ Fold(k1) \in Values
        /\ last_op[k2].op = "delete"
        /\ \E f \in FileIds : LiveHintIn(f, k2)

\* C2: once put(K,V) has returned, get(K) in that session returns Some(V),
\* whether K is still buffered or the flusher has persisted it.
C2_ReadYourWrites ==
    \A i \in Inst, k \in Keys :
        (Readable(i) /\ last_op[k].op = "put" /\ last_op[k].by = i)
            => Get(i, k) = last_op[k].value

\* The key put in this session has been moved to the active segment.
C2_Witness ==
    \E i \in Inst, k \in Keys :
        /\ Readable(i)
        /\ last_op[k].op = "put" /\ last_op[k].by = i
        /\ buffer[i][BufferKey(k)] = None
        /\ keys_dir[i][k].st = "Persisted"
        /\ keys_dir[i][k].file_id = active_file[i]

\* C7: after delete(K) the key is absent (get, contains, keys), in the
\* session and after close and reopen.
C7_DeletedIsAbsent ==
    \A i \in Inst, k \in Keys :
        (Readable(i) /\ last_op[k].op = "delete") =>
            /\ Get(i, k) = None
            /\ ~Contains(i, k)
            /\ \A n \in 1..Len(KeysOf(i)) : KeysOf(i)[n] # k

\* A later session reads a key whose record is in an older segment than the
\* tombstone of its delete.
C7_Witness ==
    \E i \in Inst, k \in Keys, f1, f2 \in FileIds :
        /\ Readable(i)
        /\ last_op[k].op = "delete" /\ last_op[k].by = "none" /\ last_op[k].present
        /\ f1 < f2
        /\ LiveHintIn(f1, k)
        /\ TombstoneIn(f2, k)

\* C8: delete(K) of a key that is not present leaves keys() and every get
\* unchanged, in the session and in what a reopen observes.
C8_DeleteAbsentIsNoop ==
    \A i \in Inst, k \in Keys :
        (Readable(i) /\ ~Contains(i, k)) =>
            LET r == DeleteResult(buffer[i], keys_dir[i], disk, active_file[i], k) IN
            /\ ObsFrom(r.buffer, r.keys_dir, files_dir[i], r.disk) = Obs(i)
            /\ ReopenObsFrom(r.buffer, r.disk, active_file[i]) = ReopenObs(i)

\* A delete found its key absent while another key is live.
C8_Witness ==
    \E i \in Inst, k, k2 \in Keys :
        /\ Readable(i)
        /\ last_op[k].op = "delete" /\ last_op[k].by = i /\ ~last_op[k].present
        /\ TombstoneIn(active_file[i], k)
        /\ Fold(k2) \in Values

\* clear() has returned Ok in this session and no put was issued since it
\* began.
ClearReturned(i) ==
    /\ phase[i] = "open"
    /\ clear_st[i].pc = "idle"
    /\ \E k \in Keys : last_op[k].op = "clear" /\ last_op[k].by = i
    /\ \A k \in Keys : ~(last_op[k].op = "put" /\ last_op[k].by = i)

\* C9: after clear() has returned Ok, with no put issued since it began,
\* keys() is empty and the buffer is empty, whatever the background flusher
\* did meanwhile.
C9_ClearEmpties ==
    \A i \in Inst :
        ClearReturned(i) =>
            /\ KeysOf(i) = <<>>
            /\ buffer[i] = EmptyBuffer

\* C10: a key that was present when clear() was called is absent after a
\* close and reopen, also when the flusher drained it between clear's
\* tombstone for it and clear's emptying of the buffer.
C10_ClearedStaysAbsent ==
    \A i \in Inst, k \in Keys :
        (Fresh(i) /\ last_op[k].op = "clear" /\ last_op[k].by = "none") =>
            /\ Get(i, k) = None
            /\ ~Contains(i, k)

\* merge() has returned Ok and no put, delete or clear was issued since.
MergeReturned == merge_hist.ok /\ merge_hist.at = nops

\* C3: after merge() has returned Ok, with nothing running beside it, get(K)
\* in that session returns for every key what it returned just before the
\* merge, also for the keys whose records the merge moved.
C3_MergeKeepsValues ==
    \A i \in Inst, k \in Keys :
        (Readable(i) /\ MergeReturned /\ merge_hist.by = i) =>
            Get(i, k) = merge_hist.before.get[k]

\* C4: keys() after a merge, in the same session and after a close and
\* reopen, is the sequence keys() returned before the merge.
C4_MergeKeepsKeys ==
    \A i \in Inst :
        (Readable(i) /\ MergeReturned) => KeysOf(i) = merge_hist.before.keys

\* C5: a put that returned Ok on a handle which was then dropped is read by
\* a Notus whose open was called afterwards, however the drop, the exit of
\* the background flusher and the new open interleave.
C5_DropThenOpenReads ==
    \A i \in Inst, k \in Keys :
        (/\ Readable(i)
         /\ open_ctx[i].kind = "after_drop"
         /\ open_ctx[i].fold[k] # None
         /\ last_op[k].op = "put" /\ last_op[k].value = open_ctx[i].fold[k])
            => Get(i, k) = open_ctx[i].fold[k]

\* C6: an open called while another datastore is open on the directory does
\* not succeed (it returns Err(LockFailed)).
C6_SecondOpenFails ==
    \A i \in Inst : open_ctx[i].kind = "contended" => phase[i] # "open"

\* C11: a get(K) of a live key that runs beside a merge returns K's current
\* value, never Ok(None) and never an error, whether the merge has moved K
\* to the merged pair yet or not.
C11_GetBesideMerge ==
    \A i \in Inst, k \in Keys :
        (/\ phase[i] = "open"
         /\ merge_st[i].pc # "idle"
         /\ buf_lock[i] = "free"
         /\ last_op[k].op = "put")
            => Get(i, k) = last_op[k].value

\* C12: when a put(K,V2) and its flush interleave with a merge that moves an
\* older record of K, then once all three are done get(K) = Some(V2) and
\* keydir[K] is the entry the flush wrote, not the copy in the merged pair.
C12_PutBesideMergeWins ==
    \A i \in Inst, k \in Keys :
        (/\ Readable(i)
         /\ merge_hist.ok /\ merge_hist.by = i
         /\ last_op[k].op = "put" /\ last_op[k].by = i
         /\ buffer[i] = EmptyBuffer)
            => /\ Get(i, k) = last_op[k].value
               /\ keys_dir[i][k].file_id = active_file[i]

\* C13: after a flush that failed part-way, every entry it had not written
\* is still in the buffer, its keydir state InBuffer, and get returns it.
C13_FailedFlushKeepsTail ==
    \A i \in Inst, k \in Keys :
        (Readable(i) /\ keys_dir[i][k].st = "InBuffer") =>
            /\ buffer[i][BufferKey(k)] # None
            /\ Get(i, k) = last_op[k].value

\* The record keydir[k] of instance i points at, if get(k) reads one.
ReadsRecord(i, k) ==
    /\ Readable(i)
    /\ buffer[i][BufferKey(k)] = None
    /\ keys_dir[i][k].st = "Persisted"
    /\ keys_dir[i][k].file_id \in files_dir[i]
    /\ disk[keys_dir[i][k].file_id].exists
    /\ keys_dir[i][k].data_entry_position < Len(disk[keys_dir[i][k].file_id].data)

RecordOf(i, k) ==
    Read(disk, keys_dir[i][k].file_id, keys_dir[i][k].data_entry_position)

\* C14: if the record keydir[K] points at fails its CRC check, get(K)
\* returns the corruption error, not Ok(None) and not a value; a get of a key
\* whose record is intact returns its value.
C14_CorruptIsReported ==
    \A i \in Inst, k \in Keys :
        ReadsRecord(i, k) =>
            IF CheckCrc(RecordOf(i, k))
            THEN Get(i, k) = last_op[k].value /\ last_op[k].op = "put"
            ELSE Get(i, k) = CorruptValue

\* One key's record is damaged, another key's record in the same data file
\* is intact.
C14_Witness ==
    \E i \in Inst, k1, k2 \in Keys :
        /\ ReadsRecord(i, k1) /\ ~CheckCrc(RecordOf(i, k1))
        /\ ReadsRecord(i, k2) /\ CheckCrc(RecordOf(i, k2))
        /\ keys_dir[i][k1].file_id = keys_dir[i][k2].file_id

\* The keys of a sequence, and: the sequence is strictly ascending in byte
\* order (so no key occurs twice).
Elems(ks) == {ks[n] : n \in 1..Len(ks)}
StrictlyAscending(ks) ==
    \A m, n \in 1..Len(ks) : m < n => (LexLeq(ks[m], ks[n]) /\ ks[m] # ks[n])

Present(i) == {k \in DOMAIN keys_dir[i] : keys_dir[i][k].st \in {"InBuffer", "Persisted"}}

\* C15: range(A..=B), A <= B, returns exactly the keys K of the keydir
\* (InBuffer or Persisted) with A <= K <= B, each once, in ascending
\* unsigned-byte lexicographic order.
C15_RangeIsExact ==
    query.op = "range" =>
        /\ Elems(query.out) =
               {k \in Present("a") : LexLeq(query.a, k) /\ LexLeq(k, query.b)}
        /\ StrictlyAscending(query.out)

\* A range whose upper bound is a key of the keydir, with a key inside, a
\* key below and a key above it, one of them buffered and one persisted.
C15_Witness ==
    /\ query.op = "range"
    /\ query.b \in Present("a")
    /\ Len(query.out) >= 2
    /\ \E k \in Present("a") : ~LexLeq(query.a, k)
    /\ \E k \in Present("a") : ~LexLeq(k, query.b)
    /\ \E k1, k2 \in Elems(query.out) :
           keys_dir["a"][k1].st = "InBuffer" /\ keys_dir["a"][k2].st = "Persisted"

\* C16: prefix(P) returns exactly the keys of the keydir that start with P,
\* each once, in ascending byte order.
C16_PrefixIsExact ==
    query.op = "prefix" =>
        /\ Elems(query.out) = {k \in Present("a") : StartsWith(k, query.a)}
        /\ StrictlyAscending(query.out)

\* A prefix call with a non-empty prefix that is itself a key, longer keys
\* that start with it, a smaller key and a greater key that do not.
C16_Witness ==
    /\ query.op = "prefix"
    /\ query.a # <<>>
    /\ query.a \in Elems(query.out)
    /\ Len(query.out) >= 2
    /\ \E k \in Present("a") : ~LexLeq(query.a, k)
    /\ \E k \in Present("a") : LexLeq(query.a, k) /\ ~StartsWith(k, query.a)

\* The pairs an iteration over keys() is to yield, and the keys yielded.
IterExpected(i) ==
    [n \in 1..Len(KeysOf(i)) |-> <<KeysOf(i)[n], Get(i, KeysOf(i)[n])>>]
OutKeys(i) == [n \in 1..Len(iter[i].out) |-> iter[i].out[n][1]]

\* Nothing was put, deleted or cleared since the iterator was created.
Unmodified(i) == iter[i].on /\ iter[i].at = nops

\* C17: with no modification meanwhile, an iterator made by iter() yields
\* one (key, value) pair for every key of keys(), in ascending order, the
\* value being get(key), for buffered and for persisted keys.
C17_IterYieldsAll ==
    \A i \in Inst :
        (Unmodified(i) /\ ~iter[i].back) =>
            /\ iter[i].out = SubSeq(IterExpected(i), 1, iter[i].cursor)
            /\ StrictlyAscending(OutKeys(i))
            /\ iter[i].ended => iter[i].out = IterExpected(i)

\* An iteration has run to its end over a buffered and a persisted key.
C17_Witness ==
    \E i \in Inst, k1, k2 \in Keys :
        /\ Unmodified(i) /\ ~iter[i].back /\ iter[i].ended
        /\ Len(iter[i].out) = 2
        /\ keys_dir[i][k1].st = "InBuffer"
        /\ keys_dir[i][k2].st = "Persisted"

\* C18: over a fixed snapshot, next_back() alone yields every snapshot key
\* once in descending order, and any interleaving of next() and next_back()
\* yields every snapshot key exactly once.
C18_BothEndsOnce ==
    \A i \in Inst :
        Unmodified(i) =>
            /\ \A m, n \in 1..Len(iter[i].out) : m # n => OutKeys(i)[m] # OutKeys(i)[n]
            /\ iter[i].ended => Elems(OutKeys(i)) = Elems(iter[i].inner)
            /\ ~iter[i].fwd =>
                   \A m, n \in 1..Len(iter[i].out) :
                       m < n => LexLeq(OutKeys(i)[n], OutKeys(i)[m])

\* C19: a snapshot key deleted before the iterator reaches it is skipped,
\* and the iterator still yields every snapshot key that is still present.
C19_DeletedIsSkipped ==
    \A i \in Inst, k \in Keys :
        (/\ iter[i].on /\ iter[i].ended /\ ~iter[i].back
         /\ phase[i] = "open" /\ buf_lock[i] = "free"
         /\ k \in Elems(iter[i].inner)
         /\ Get(i, k) \in Values)
            => k \in Elems(OutKeys(i))

\* C20: put is idempotent: after put(K,V), with or without a flush since, a
\* second put(K,V) leaves keys() and every get as they are, in the session
\* and in what a reopen observes.
C20_PutIsIdempotent ==
    \A i \in Inst, k \in Keys :
        (Readable(i) /\ last_op[k].op = "put" /\ last_op[k].by = i) =>
            LET r == PutResult(buffer[i], keys_dir[i], k, last_op[k].value) IN
            /\ ObsFrom(r.buffer, r.keys_dir, files_dir[i], disk) = Obs(i)
            /\ ReopenObsFrom(r.buffer, disk, active_file[i]) = ReopenObs(i)

\* A put of this session has been flushed, and another is still buffered.
C20_Witness ==
    \E i \in Inst, k, k2 \in Keys :
        /\ Readable(i)
        /\ last_op[k].op = "put" /\ last_op[k].by = i
        /\ LiveHintIn(active_file[i], k) /\ buffer[i][BufferKey(k)] = None
        /\ last_op[k2].op = "put" /\ last_op[k2].by = i
        /\ buffer[i][BufferKey(k2)] # None

\* Instance i is open and none of its calls is running: nobody holds the
\* buffer lock, no clear and no merge is under way.
Quiescent(i) ==
    /\ phase[i] = "open"
    /\ buf_lock[i] = "free"
    /\ clear_st[i].pc = "idle"
    /\ merge_st[i].pc = "idle"

\* C21: in every state of any interleaving of put, delete, flush, clear and
\* merge in which no operation is inside its critical section, K is in the
\* buffer if and only if keydir[K] = InBuffer.
C21_BufferIffInBuffer ==
    \A i \in Inst, k \in Keys :
        Quiescent(i) =>
            (buffer[i][BufferKey(k)] # None <=> keys_dir[i][k].st = "InBuffer")

\* C22: in every reachable state, for every key K with keydir[K] =
\* Persisted(f, off), the data record at offset off of segment f has key K;
\* after flush, after hint replay and after merge, also when a sealed
\* segment's hints hold a tombstone of K while keydir[K] points into it.
C22_PersistedPointsAtOwnRecord ==
    \A i \in Inst, k \in Keys :
        LET e == keys_dir[i][k] IN
        (/\ e.st = "Persisted"
         /\ disk[e.file_id].exists
         /\ e.data_entry_position < Len(disk[e.file_id].data))
            => Read(disk, e.file_id, e.data_entry_position).key = BufferKey(k)

\* C23: merge copies a hint's record from a sealed segment S only when
\* keydir[K] points at S with exactly that hint's offset; so when S holds
\* several records of K, the one migrated is the most recent, and a reopen
\* after the merge reads K's latest value.
C23_MergeCopiesLatest ==
    \A i \in Inst :
        /\ (merge_st[i].pc = "write" /\ ~Head(merge_st[i].hints).deleted) =>
               LET hint == Head(merge_st[i].hints) IN
               keys_dir[i][Deserialize(hint.key)[2]] =
                   Persisted(merge_st[i].fp, hint.data_entry_position)
        /\ \A k \in Keys :
               (/\ Readable(i) /\ MergeReturned /\ merge_hist.by = i
                /\ last_op[k].op = "put"
                /\ \A f \in FileIds : ~TombstoneIn(f, k))
                   => ReopenObs(i).get[k] = last_op[k].value

\* C24: replay in ascending file-id order is last-writer-wins also across a
\* merge: if K was live when an Ok merge was called and was afterwards
\* overwritten by a put or removed by a delete of that session, then after
\* close and reopen get(K) is the new value, respectively None.
C24_ReplayAcrossMerge ==
    \A i \in Inst, k \in Keys :
        (/\ Fresh(i)
         /\ merge_hist.ok
         /\ merge_hist.before.get[k] \in Values
         /\ merge_hist.before.get[k] # Fold(k))
            => Get(i, k) = Fold(k)

\* C25: merge creates no keydir entry for a key whose keydir lookup is
\* absent: if K is deleted before the merge, or by a delete that falls
\* between merge's keydir lookup of K and its keydir rewrite, K is absent
\* from keys() and get(K) = None once both have completed.
C25_MergeKeepsDeleted ==
    \A i \in Inst, k \in Keys :
        (Readable(i) /\ last_op[k].op = "delete" /\ last_op[k].by = i) =>
            /\ k \notin Elems(KeysOf(i))
            /\ Get(i, k) = None

\* C26: an instance holds the exclusive directory lock for its whole
\* lifetime: open takes the lock before it creates the active segment,
\* discovers segments or replays hints, so no instance that does not hold
\* the lock has created a segment pair or built its keydir.
C26_LockBeforeFiles ==
    \A i \in Inst :
        (phase[i] # "none" \/ active_file[i] # 0 \/ keys_dir[i] # EmptyKeysDir)
            => lock_holder = i

\* C27: keydir[K] is set to Persisted(f, off) only after K's data record
\* has been written completely at off in f's data file; if the data write
\* or the flush of the userland write buffer fails it is not, so a get that
\* observes Persisted(f, off) finds a fully written, CRC-valid record.
C27_PersistedIsWritten ==
    \A i \in Inst, k \in Keys :
        (phase[i] = "open" /\ keys_dir[i][k].st = "Persisted") =>
            ReadOk(disk, keys_dir[i][k].file_id, keys_dir[i][k].data_entry_position)

\* The pairs instance i discovered at open, its own active pair left out.
Sealed(i) == files_dir[i] \ {active_file[i]}

\* C28: every data and hint record appended by put, flush, delete and clear
\* goes to the active segment created by the current open; the files of
\* the segments discovered at open are never appended to or changed, except
\* that merge deletes them.
C28_OnlyActiveIsWritten ==
    [][\A i \in Inst, f \in FileIds :
          (phase[i] \in {"open", "drop"} /\ disk[f].exists /\ disk'[f] # disk[f]) =>
              \/ f = active_file[i]
              \/ merge_st[i].pc = "write" /\ f = merge_st[i].merged_file_pair
              \/ /\ f \in Sealed(i)
                 /\ disk'[f] = NoPair
                 /\ merge_st[i].pc = "files"
                 /\ f \in merge_st[i].mark_for_removal]_vars

\* A session has flushed a record and written a tombstone to its active
\* pair while a sealed pair with a record lies beside it.
C28_Witness ==
    \E i \in Inst, f \in FileIds, k \in Keys :
        /\ phase[i] = "open"
        /\ f \in Sealed(i)
        /\ disk[f].exists /\ disk[f].data # <<>>
        /\ disk[active_file[i]].data # <<>>
        /\ TombstoneIn(active_file[i], k)

\* The number of complete hint records before the first torn one.
CompleteLen(hints) ==
    IF \A n \in 1..Len(hints) : HintDecodes(hints[n]) THEN Len(hints)
    ELSE (CHOOSE n \in 1..Len(hints) :
              ~HintDecodes(hints[n]) /\ \A m \in 1..(n - 1) : HintDecodes(hints[m])) - 1

\* The complete hint records of key k in the pairs fd: <<file, index>>.
CompleteHintsOf(d, fd, k) ==
    {c \in UNION {{<<f, n>> : n \in 1..CompleteLen(d[f].hint)} : f \in fd} :
        d[c[1]].hint[c[2]].key = BufferKey(k)}

\* The keydir entry the last complete hint record of k stands for.
LastCompleteHint(d, fd, k) ==
    LET cand == CompleteHintsOf(d, fd, k) IN
    IF cand = {} THEN Absent
    ELSE LET c == CHOOSE x \in cand : \A y \in cand :
                      y[1] < x[1] \/ (y[1] = x[1] /\ y[2] <= x[2])
             h == d[c[1]].hint[c[2]]
         IN IF h.deleted THEN Absent ELSE Persisted(c[1], h.data_entry_position)

HasTornTail(f) ==
    /\ disk[f].exists
    /\ disk[f].hint # <<>>
    /\ ~HintDecodes(disk[f].hint[Len(disk[f].hint)])

\* C29: if a hint file ends in a torn record, open succeeds: replay applies
\* every complete hint record before the torn one, stops at the first decode
\* failure, and reports no error.
C29_TornTailIsEnd ==
    \A i \in Inst :
        Fresh(i) =>
            \A k \in Keys : keys_dir[i][k] = LastCompleteHint(disk, files_dir[i], k)

\* An open has succeeded over a hint file with a complete record before its
\* torn tail.
C29_Witness ==
    \E i \in Inst, f \in FileIds :
        /\ Fresh(i)
        /\ f \in files_dir[i]
        /\ HasTornTail(f)
        /\ CompleteLen(disk[f].hint) >= 1
        /\ \E k \in Keys : keys_dir[i][k] = Persisted(f, 0)

\* Pair f has a record of key k in its data file.
RecordIn(f, k) == \E n \in 1..Len(disk[f].data) : disk[f].data[n].key = BufferKey(k)

\* C30: if the directory holds a .data file whose .hint sibling is missing,
\* open still succeeds, and the keys whose records are in that data file are
\* in the keydir and readable by get.
C30_MissingHintIsScanned ==
    [][\A i \in Inst :
          (/\ phase[i] = "discovered"
           /\ phase'[i] # "discovered"
           /\ \E f \in files_dir[i] : disk[f].exists /\ disk[f].hint_missing) =>
              /\ phase'[i] = "replayed"
              /\ \A k \in Keys :
                     (/\ \E f \in files_dir[i] : disk[f].hint_missing /\ RecordIn(f, k)
                      /\ \A f \in files_dir[i] : ~TombstoneIn(f, k))
                         => /\ keys_dir'[i][k].st = "Persisted"
                            /\ GetFrom(EmptyBuffer, keys_dir'[i], files_dir[i], disk, k)
                                   \in Values]_vars

C32_BufferedIsPersisted ==
    \A i \in Inst, k \in Keys :
        (keys_dir[i][k].st = "InBuffer")
            ~> (keys_dir[i][k].st = "Persisted" \/ last_op[k].op = "delete")

\* The worker's flush has moved a key to the active pair while the handle is
\* open.
C32_Witness ==
    \E i \in Inst, k \in Keys :
        /\ Handle(i)
        /\ flusher[i] = "flush"
        /\ buf_lock[i] = "bg"
        /\ keys_dir[i][k] = Persisted(active_file[i], 0)
        /\ last_op[k].op = "put" /\ last_op[k].by = i

\* The order in which a call may take a second lock while it holds one.
LockRank(lock) ==
    CASE lock = "buffer" -> 1
      [] lock = "files_dir" -> 2
      [] lock = "keys" -> 3

\* C33: no interleaving of put, get, delete, contains, clear, flush and
\* merge on one datastore deadlocks: the buffer lock, the keydir lock and the
\* segment-directory lock are never taken in conflicting orders, so as long
\* as a call is running some call can go on.
C33_NoDeadlock ==
    /\ (\E t \in Threads : Running(t)) => \E t \in Threads : CanStep(t)
    /\ \A t \in Threads :
           (Running(t) /\ NextLockStep(t)[1] = "acq") =>
               \A g \in Held(t) : LockRank(g[1]) < LockRank(NextLockStep(t)[2])

\* A put holding the buffer lock waits for the keys lock that a merge holds,
\* while a clear waits for the buffer lock.
C33_Witness ==
    \E t1, t2, t3 \in Threads :
        /\ thr[t1].op = "put" /\ <<"buffer", "W">> \in Held(t1) /\ ~CanStep(t1)
        /\ thr[t2].op = "merge" /\ <<"keys", "W">> \in Held(t2)
        /\ thr[t3].op = "clear" /\ thr[t3].pc = 4 /\ ~CanStep(t3)

\* The put last_op[k] stands for has a record and a live hint in a pair.
PutIsWritten(k) ==
    \E f \in FileIds : \E n \in 1..Len(disk[f].hint) :
        LET h == disk[f].hint[n] IN
        /\ disk[f].exists
        /\ h.key = BufferKey(k) /\ ~h.deleted
        /\ h.data_entry_position < Len(disk[f].data)
        /\ Read(disk, f, h.data_entry_position) = DataEntry(BufferKey(k), last_op[k].value)

\* C34: the directory lock is released only after the buffer has been
\* flushed: the DataStore is torn down when the last owner (handle, worker
\* or an outstanding DBIterator) is dropped, and its drop flushes and then
\* unlocks, so nobody else can hold the lock while puts are unwritten.
C34_UnlockAfterFlush ==
    \A i \in Inst :
        /\ buffer[i] # EmptyBuffer => lock_holder = i
        /\ phase[i] = "drop" => holders[i] = {}
        /\ (phase[i] = "open" /\ holders[i] # {}) => lock_holder = i
        /\ \A k \in Keys :
               (last_op[k].op = "put" /\ last_op[k].by # i /\ lock_holder = i)
                   => PutIsWritten(k)

\* The last owner is gone while the worker had already left and a put is
\* still in the buffer: the teardown holds the lock.
C34_Witness ==
    \E i \in Inst :
        /\ phase[i] = "drop"
        /\ flusher[i] = "none"
        /\ buffer[i] # EmptyBuffer
        /\ lock_holder = i

\* C35: a second merge in the session of a merge that returned Ok returns Ok
\* too, and leaves keys() and the value of every key as they were.
C35_MergeIsIdempotent ==
    \A i \in Inst :
        (/\ Readable(i)
         /\ merge_hist.by = i /\ merge_hist.after_ok
         /\ merge_st[i].pc = "idle")
            => /\ merge_hist.ok
               /\ merge_hist.at = nops => Obs(i) = merge_hist.before

\* The last merge of instance i returned an error and nothing was called
\* since.
MergeFailed(i) ==
    /\ Readable(i)
    /\ merge_hist.by = i /\ merge_hist.count > 0
    /\ merge_st[i].pc = "idle"
    /\ ~merge_hist.ok
    /\ merge_hist.at = nops

\* C36: a merge that fails part-way has deleted no segment file, and every
\* key that was present before it is there with its value after a close and
\* a reopen.
C36_FailedMergeKeepsAll ==
    \A i \in Inst :
        MergeFailed(i) =>
            /\ \A f \in files_dir[i] : disk[f].exists
            /\ \A n \in 1..Len(merge_hist.before.keys) :
                   \E n2 \in 1..Len(ReopenObs(i).keys) :
                       ReopenObs(i).keys[n2] = merge_hist.before.keys[n]
            /\ \A k \in Keys :
                   merge_hist.before.get[k] \in Values =>
                       ReopenObs(i).get[k] = merge_hist.before.get[k]

\* C37: a delete whose tombstone append fails leaves the buffer and the
\* keydir as they were before the call, and get(K) returns what it returned
\* before.
C37_FailedDeleteChangesNothing ==
    [][\A i \in Inst, k \in Keys :
           DeleteFail(i, k) =>
               /\ buffer'[i] = buffer[i]
               /\ keys_dir'[i] = keys_dir[i]
               /\ GetFrom(buffer'[i], keys_dir'[i], files_dir'[i], disk', k) = Get(i, k)]_vars

\* C38: the facade treats every key alike, the empty key included: after a
\* put(K,V) that returned Ok, get(K) is V and contains(K) is true, and after
\* a delete(K) that returned Ok, K is not in keys(), which is what an
\* iterator walks.
C38_EveryKeyAlike ==
    \A i \in Inst, k \in DOMAIN last_op :
        (Readable(i) /\ last_op[k].by = i) =>
            /\ last_op[k].op = "put" =>
                   /\ NotusGet(i, k) = last_op[k].value
                   /\ NotusContains(i, k)
            /\ last_op[k].op = "delete" => k \notin Elems(KeysOf(i))

\* The last call on key in the log: its index, 0 if there is none.
LastCallOn(key) ==
    LET S == {n \in 1..Len(memtable.last) : memtable.last[n].key = key}
    IN IF S = {} THEN 0 ELSE CHOOSE n \in S : \A x \in S : x <= n

\* C39: the entries of a MemTable are sorted by key with one entry per key,
\* and get(K) returns the entry of the last call on K: the value last
\* inserted, or a tombstone entry with no value if the last call was remove.
C39_MemTableGetsLast ==
    /\ \A n \in 1..(Len(memtable.entries) - 1) :
           /\ LexLeq(memtable.entries[n].key, memtable.entries[n + 1].key)
           /\ memtable.entries[n].key # memtable.entries[n + 1].key
    /\ \A key \in MemKeys :
           LET n == LastCallOn(key)
               e == MemGet(memtable, key)
           IN IF n = 0 THEN ~e.found
              ELSE /\ e.found
                   /\ e.key = key
                   /\ IF memtable.last[n].op = "insert"
                      THEN e.value = SomeBytes(memtable.last[n].value) /\ ~e.tombstone
                      ELSE e.value = NoBytes /\ e.tombstone

\* Keys were inserted in descending order, one of them was removed and one
\* was inserted twice.
C39_Witness ==
    /\ Len(memtable.last) = MaxMemOps
    /\ Len(memtable.entries) = 2
    /\ memtable.last[1].key = <<2>> /\ memtable.last[1].op = "insert"
    /\ memtable.last[2].key = <<1>> /\ memtable.last[2].op = "insert"
    /\ memtable.last[3].key = <<2>> /\ memtable.last[3].op = "remove"
    /\ memtable.last[4].key = <<1>> /\ memtable.last[4].op = "insert"
    /\ memtable.last[4].value # memtable.last[2].value
    /\ MemGet(memtable, <<2>>).tombstone

\* The bytes the entries of a MemTable stand for.
RECURSIVE EntriesSize(_)
EntriesSize(entries) ==
    IF entries = <<>> THEN 0
    ELSE Len(Head(entries).key)
         + (IF Head(entries).value.some THEN Len(Head(entries).value.v) ELSE 0)
         + TimestampSize + TombstoneSize
         + EntriesSize(Tail(entries))

\* C40: size() is the sum over the entries of key length + value length +
\* 9, and no subtraction in insert or remove underflows, also when a key is
\* inserted again after it was removed.
C40_SizeIsSum ==
    /\ ~memtable.underflow
    /\ memtable.size = EntriesSize(memtable.entries)

====
